---- MODULE Spec2Model ----
(***************************************************************************)
(* A model of gcore/rawdataset.cpp: RawRasterBand, a raster band stored    *)
(* as an arithmetic progression of bytes in a file.                        *)
(*                                                                         *)
(* Buffers and the file are sequences of bytes (index 1 is byte 0).        *)
(* vsi_l_offset and GUIntBig are unsigned integers of OffBits bits, int is *)
(* a signed integer of IntBits bits; the build has IntBits = 32 and        *)
(* OffBits = 64, the model keeps OffBits = 2 * IntBits and all arithmetic  *)
(* of the code is done modulo 2^OffBits exactly where the code does it.    *)
(***************************************************************************)
EXTENDS Integers, Sequences, FiniteSets, TLC

(***************************************************************************)
(* Bounds of the model.                                                    *)
(***************************************************************************)
IntBits == 6
ImgWidth == 2
ImgHeight == 2

RECURSIVE Pow2(_)
Pow2(n) == IF n = 0 THEN 1 ELSE 2 * Pow2(n - 1)

OffBits == 2 * IntBits
OffMod == Pow2(OffBits)
OFF_MAX == OffMod - 1
GINTBIG_MAX == Pow2(OffBits - 1) - 1
INT_MAX == Pow2(IntBits - 1) - 1
INT_MIN == -Pow2(IntBits - 1)
IntMod == Pow2(IntBits)

Abs(i) == IF i < 0 THEN -i ELSE i
Min(a, b) == IF a < b THEN a ELSE b
Max(a, b) == IF a > b THEN a ELSE b

(***************************************************************************)
(* Unsigned arithmetic of vsi_l_offset / GUIntBig: results are reduced     *)
(* modulo 2^OffBits.  ToOff is the conversion of a signed value.           *)
(***************************************************************************)
ToOff(i) == i % OffMod
AddOff(a, b) == (a + b) % OffMod
SubOff(a, b) == (a - b) % OffMod
MulOff(a, b) == (ToOff(a) * ToOff(b)) % OffMod

(***************************************************************************)
(* Signed int arithmetic.  Overflow of a signed int is undefined; the      *)
(* outcome ub is "wrap" (two's complement result) or "exact" (the build    *)
(* widened the operation).                                                 *)
(***************************************************************************)
UBOutcomes == {"wrap", "exact"}
WrapInt(i) == ((i - INT_MIN) % IntMod) + INT_MIN
IntResult(i, ub) == IF i >= INT_MIN /\ i <= INT_MAX THEN i
                    ELSE IF ub = "wrap" THEN WrapInt(i) ELSE i
NegInt(i, ub) == IntResult(-i, ub)
MulInt(a, b, ub) == IntResult(a * b, ub)
AbsInt(i, ub) == IF i < 0 THEN IntResult(-i, ub) ELSE i

(***************************************************************************)
(* Signed arithmetic of GIntBig, with the same two outcomes of an          *)
(* overflow.  ToGIntBig is the conversion of a vsi_l_offset.               *)
(***************************************************************************)
GINTBIG_MIN == -GINTBIG_MAX - 1
ToGIntBig(off) == IF off > GINTBIG_MAX THEN off - OffMod ELSE off
WrapGIntBig(i) == ((i - GINTBIG_MIN) % OffMod) + GINTBIG_MIN
GIntBigResult(i, ub) == IF i >= GINTBIG_MIN /\ i <= GINTBIG_MAX THEN i
                        ELSE IF ub = "wrap" THEN WrapGIntBig(i) ELSE i
SubGIntBig(a, b, ub) == GIntBigResult(a - b, ub)
MulGIntBig(a, b, ub) == GIntBigResult(a * b, ub)

(***************************************************************************)
(* Data types.                                                             *)
(***************************************************************************)
GDALGetDataTypeSize(dt) ==
    CASE dt = "GDT_Byte" -> 8
      [] dt = "GDT_Int16" -> 16
      [] dt = "GDT_CInt16" -> 32
GDALGetDataTypeSizeBytes(dt) == GDALGetDataTypeSize(dt) \div 8
GDALDataTypeIsComplex(dt) == dt = "GDT_CInt16"

(***************************************************************************)
(* Buffers.  Byte k (0-based) of buffer b is b[k + 1].                     *)
(*                                                                         *)
(* Only({e(t) : t \in {v}}) is e(v) with v computed once: the operators    *)
(* below take their arguments and intermediate results by value.           *)
(***************************************************************************)
Only(set) == CHOOSE x \in set : TRUE

Zeros(n) == [i \in 1..n |-> 0]
\* malloc'ed memory: a byte value that nothing else produces
Uninit(n) == [i \in 1..n |-> 199]
Slice(b, off, n) ==
    Only({[i \in 1..t.n |-> t.b[t.off + i]] : t \in {[b |-> b, off |-> off, n |-> n]}})
\* b with the n bytes at off replaced by d[1..n]
Patch(b, off, d, n) ==
    Only({[i \in 1..Len(t.b) |->
              IF i > t.off /\ i <= t.off + t.n THEN t.d[i - t.off] ELSE t.b[i]]
          : t \in {[b |-> b, off |-> off, d |-> d, n |-> n]}})

\* one word of wordSize bytes at byte offset off, reversed in place
SwapWord(b, off, wordSize) ==
    Only({[i \in 1..Len(t.b) |->
              IF i > t.off /\ i <= t.off + t.n
              THEN t.b[t.off + (t.n - (i - t.off - 1))]
              ELSE t.b[i]]
          : t \in {[b |-> b, off |-> off, n |-> wordSize]}})

RECURSIVE SwapFrom(_, _, _, _, _, _)
SwapFrom(b, base, wordSize, count, stride, i) ==
    IF i >= count THEN b
    ELSE Only({SwapFrom(swapped, base, wordSize, count, stride, i + 1)
               : swapped \in {SwapWord(b, base + i * stride, wordSize)}})

\* GDALSwapWords(pData + base, nWordSize, nWordCount, nWordSkip):
\* the words are reversed one after the other, in increasing address order.
GDALSwapWords(b, base, wordSize, count, stride) ==
    Only({SwapFrom(t.b, t.base, t.n, t.count, t.stride, 0)
          : t \in {[b |-> b, base |-> base, n |-> wordSize, count |-> count,
                    stride |-> stride]}})

\* GDALCopyWords between two buffers of the same data type: word k is
\* copied from src + k*srcStride to dst + k*dstStride, k = 0, 1, ...; a byte
\* of dst that several words cover holds the byte of the last of them.
GDALCopyWords(src, srcBase, srcStride, dst, dstBase, dstStride, dt, count) ==
    Only({[i \in 1..Len(t.dst) |->
              LET covering == {k \in 0 .. (t.count - 1) :
                                  /\ i > t.dstBase + k * t.dstStride
                                  /\ i <= t.dstBase + k * t.dstStride + t.size}
              IN IF covering = {} THEN t.dst[i]
                 ELSE Only({t.src[t.srcBase + k * t.srcStride
                                   + (i - t.dstBase - k * t.dstStride)]
                            : k \in {j \in covering :
                                        \A j2 \in covering : j2 <= j}})]
          : t \in {[src |-> src, srcBase |-> srcBase, srcStride |-> srcStride,
                    dst |-> dst, dstBase |-> dstBase, dstStride |-> dstStride,
                    size |-> GDALGetDataTypeSizeBytes(dt), count |-> count]}})

\* the halves of a pixel, from half h on, swapped one after the other
RECURSIVE SwapHalves(_, _, _, _, _, _)
SwapHalves(b, nWordSize, nHalves, count, stride, h) ==
    IF h >= nHalves THEN b
    ELSE SwapHalves(GDALSwapWords(b, h * nWordSize, nWordSize, count, stride),
                    nWordSize, nHalves, count, stride, h + 1)

\* The byte swap applied to a line or block when the band is not in native
\* order: complex types swap their two halves separately.
SwapBuffer(b, dt, bNativeOrder, count, stride) ==
    IF ~bNativeOrder /\ dt # "GDT_Byte"
    THEN IF GDALDataTypeIsComplex(dt)
         THEN SwapHalves(b, GDALGetDataTypeSize(dt) \div 16, 2, count, stride, 0)
         ELSE SwapHalves(b, GDALGetDataTypeSizeBytes(dt), 1, count, stride, 0)
    ELSE b

\* ZeroFill that leaves the tail as it was
ZeroFillNothing(b, from, n) == b

\* b with the bytes from (0-based) up to n set to zero
ZeroFill(b, from, n) ==
    Only({[i \in 1..Len(t.b) |-> IF i > t.from /\ i <= t.n THEN 0 ELSE t.b[i]]
          : t \in {[b |-> b, from |-> from, n |-> n]}})

(***************************************************************************)
(* Construction.  A band descriptor is a record; Initialize() adds the     *)
(* line-buffer fields.  bufNull stands for pLineBuffer == nullptr.         *)
(***************************************************************************)

\* GDALCheckDatasetDimensions(nXSize, nYSize)
GDALCheckDatasetDimensions(nXSize, nYSize) == nXSize >= 1 /\ nYSize >= 1

\* InitOffsets without the check of a negative nLineOffset against nImgOffset
InitOffsetsNoLineCheck(b, ub) ==
    LET img == b.nImgOffset
        lineSpan == IF b.nLineOffset < 0
                    THEN MulOff(ToOff(NegInt(b.nLineOffset, ub)), b.nRasterYSize - 1)
                    ELSE MulOff(ToOff(b.nLineOffset), b.nRasterYSize - 1)
        small1 == IF b.nLineOffset < 0 THEN SubOff(img, lineSpan) ELSE img
        large1 == IF b.nLineOffset < 0 THEN img ELSE AddOff(img, lineSpan)
        pixSpan == IF b.nPixelOffset < 0
                   THEN MulOff(ToOff(NegInt(b.nPixelOffset, ub)), b.nRasterXSize - 1)
                   ELSE MulOff(ToOff(b.nPixelOffset), b.nRasterXSize - 1)
        pixOk == IF b.nPixelOffset < 0
                 THEN ~(pixSpan > small1)
                 ELSE ~(large1 > SubOff(OFF_MAX, pixSpan))
        large2 == IF b.nPixelOffset < 0 THEN large1 ELSE AddOff(large1, pixSpan)
    IN [ok |-> pixOk /\ ~(large2 > GINTBIG_MAX),
        nLargestOffset |-> large2]

\* Initialize(), the offset checks: nSmallestOffset and nLargestOffset
InitOffsets(b, ub) ==
    LET img == b.nImgOffset
        lineSpan == IF b.nLineOffset < 0
                    THEN MulOff(ToOff(NegInt(b.nLineOffset, ub)), b.nRasterYSize - 1)
                    ELSE MulOff(ToOff(b.nLineOffset), b.nRasterYSize - 1)
        lineOk == IF b.nLineOffset < 0
                  THEN ~(lineSpan > img)
                  ELSE ~(img > SubOff(OFF_MAX, lineSpan))
        small1 == IF b.nLineOffset < 0 THEN SubOff(img, lineSpan) ELSE img
        large1 == IF b.nLineOffset < 0 THEN img ELSE AddOff(img, lineSpan)
        pixSpan == IF b.nPixelOffset < 0
                   THEN MulOff(ToOff(NegInt(b.nPixelOffset, ub)), b.nRasterXSize - 1)
                   ELSE MulOff(ToOff(b.nPixelOffset), b.nRasterXSize - 1)
        pixOk == IF b.nPixelOffset < 0
                 THEN ~(pixSpan > small1)
                 ELSE ~(large1 > SubOff(OFF_MAX, pixSpan))
        large2 == IF b.nPixelOffset < 0 THEN large1 ELSE AddOff(large1, pixSpan)
    IN [ok |-> lineOk /\ pixOk /\ ~(large2 > GINTBIG_MAX),
        nLargestOffset |-> large2]

\* Initialize(), the working scanline: nLineSize, or 0 when it does not fit
LineSizeOf(b, ub) ==
    LET nDTSize == GDALGetDataTypeSizeBytes(b.eDataType)
        absP == AbsInt(b.nPixelOffset, ub)
        w == b.nBlockXSize
    IN IF w <= 0
          \/ (w > 1 /\ absP > INT_MAX \div (w - 1))
          \/ IntResult(absP * (w - 1), ub) > INT_MAX - nDTSize
       THEN 0
       ELSE IntResult(absP * (w - 1), ub) + nDTSize

\* Initialize(): b holds the constructor's arguments and sizes; allocOk is
\* whether VSIMalloc can return memory.
Initialize(b, ub, allocOk) ==
    LET offs == InitOffsets(b, ub)
        nLineSize == LineSizeOf(b, ub)
        alloc == offs.ok /\ nLineSize > 0 /\ allocOk
    IN [poDS |-> b.poDS,
        nImgOffset |-> b.nImgOffset,
        nPixelOffset |-> b.nPixelOffset,
        nLineOffset |-> b.nLineOffset,
        eDataType |-> b.eDataType,
        bNativeOrder |-> b.bNativeOrder,
        bOwnsFP |-> b.bOwnsFP,
        nRasterXSize |-> b.nRasterXSize,
        nRasterYSize |-> b.nRasterYSize,
        nBlockXSize |-> b.nBlockXSize,
        nLineSize |-> IF alloc THEN nLineSize ELSE 0,
        bufNull |-> ~alloc,
        pLineStart |-> IF alloc /\ b.nPixelOffset < 0
                       THEN Abs(b.nPixelOffset) * (b.nBlockXSize - 1)
                       ELSE 0,
        nLargestOffset |-> IF offs.ok THEN offs.nLargestOffset ELSE 0]

\* The arguments of a constructor and the dimensions it takes over; the
\* band does not own the file (OwnFP::NO).
CtorArgs(poDS, img, ps, ls, dt, native, nXSize, nYSize) ==
    [poDS |-> poDS, nImgOffset |-> img, nPixelOffset |-> ps, nLineOffset |-> ls,
     eDataType |-> dt, bNativeOrder |-> native, bOwnsFP |-> FALSE,
     nRasterXSize |-> nXSize, nRasterYSize |-> nYSize, nBlockXSize |-> nXSize]

\* the arguments a with bOwnsFPIn == OwnFP::YES when own
OwnFP(a, own) == [a EXCEPT !.bOwnsFP = own]

\* RawRasterBand(poDS, nBand, fpRawL, ...): the dimensions are the dataset's
RawRasterBandDS(a, ub, allocOk) == Initialize(a, ub, allocOk)

\* RawRasterBand(fpRawL, ..., nXSize, nYSize, ...): the floating band
RawRasterBandFloating(a, ub, allocOk) ==
    IF ~GDALCheckDatasetDimensions(a.nRasterXSize, a.nRasterYSize)
    THEN Initialize(a, ub, FALSE)
    ELSE Initialize(a, ub, allocOk)

RawRasterBand(a, ub, allocOk) ==
    IF a.poDS THEN RawRasterBandDS(a, ub, allocOk)
    ELSE RawRasterBandFloating(a, ub, allocOk)

(***************************************************************************)
(* The file.  An operation works on an io record: the file's bytes, the    *)
(* device capacity cap (a write stops there: a short write), counters of   *)
(* the calls made, and fail, the ordinals of the seeks that fail.          *)
(* progress is the log of the calls of psExtraArg->pfnProgress: the pair   *)
(* <<k, n>> stands for the fraction k / n.                                 *)
(***************************************************************************)
IoStart(f, cap, fail) ==
    [file |-> f, cap |-> cap, fail |-> fail,
     seeks |-> 0, reads |-> 0, writes |-> 0, flushes |-> 0, progress |-> <<>>]

\* Seek(): VSIFSeekL(fpRawL, nOffset, SEEK_SET)
SeekOk(io) == (io.seeks + 1) \notin io.fail
Seek(io) == [io EXCEPT !.seeks = @ + 1]

\* Read(): VSIFReadL of n bytes at off; the bytes obtained
Read(io, off, n) ==
    Only({[io |-> [io EXCEPT !.reads = @ + 1], n |-> k,
           data |-> Slice(io.file, off, k)]
          : k \in {Min(n, Max(0, Len(io.file) - off))}})

\* the file f after k bytes of d were written at off
WriteAt(f, off, d, k) ==
    Only({[i \in 1..Max(Len(t.f), t.off + t.k) |->
              IF i > t.off /\ i <= t.off + t.k THEN t.d[i - t.off]
              ELSE IF i <= Len(t.f) THEN t.f[i] ELSE 0]
          : t \in {[f |-> f, off |-> off, d |-> d, k |-> k]}})

\* Write(): VSIFWriteL of the first n bytes of d at off; the count written
Write(io, off, d, n) ==
    Only({[io |-> [io EXCEPT !.writes = @ + 1,
                             !.file = IF k = 0 THEN @ ELSE WriteAt(@, off, d, k)],
           n |-> k]
          : k \in {Max(0, Min(n, io.cap - off))}})

(***************************************************************************)
(* The scanline cache.  s is the mutable part of the band:                 *)
(* [buf: pLineBuffer, loaded: nLoadedScanline, dirty: bDirty].             *)
(* An operator returns [err, s, io, ...]; err is "CE_None" or "CE_Failure".*)
(***************************************************************************)
IsReadOnly(b, ds) == b.poDS /\ ds.eAccess = "GA_ReadOnly"

\* LineStart that forgets the pixel term of a right-to-left band
LineStartNoPixelTerm(b, iLine) ==
    IF b.nLineOffset >= 0
    THEN AddOff(b.nImgOffset, MulOff(ToOff(b.nLineOffset), iLine))
    ELSE SubOff(b.nImgOffset, MulOff(ToOff(-b.nLineOffset), iLine))

\* AccessLine(), nReadStart: the smallest byte address of line iLine
LineStart(b, iLine) ==
    LET s1 == IF b.nLineOffset >= 0
              THEN AddOff(b.nImgOffset, MulOff(ToOff(b.nLineOffset), iLine))
              ELSE SubOff(b.nImgOffset, MulOff(ToOff(-b.nLineOffset), iLine))
    IN IF b.nPixelOffset < 0
       THEN SubOff(s1, MulOff(ToOff(-b.nPixelOffset), b.nBlockXSize - 1))
       ELSE s1

\* IWriteBlock(), nWriteStart
WriteStart(b, nBlockYOff) ==
    LET nPixelOffsetToSubtract ==
            IF b.nPixelOffset >= 0 THEN 0
            ELSE MulOff(ToOff(-b.nPixelOffset), b.nBlockXSize - 1)
    IN SubOff(IF b.nLineOffset >= 0
              THEN AddOff(b.nImgOffset, MulOff(ToOff(b.nLineOffset), nBlockYOff))
              ELSE SubOff(b.nImgOffset, MulOff(ToOff(-b.nLineOffset), nBlockYOff)),
              nPixelOffsetToSubtract)

\* a failed seek that also spares the datasets with ENVI metadata
SeekFailureExemptsENVI(b, ds) == IsReadOnly(b, ds) /\ ~ds.ENVI

\* AccessLine(), a failed seek is an error: the dataset is read-only
SeekFailureIsError(b, ds) == IsReadOnly(b, ds)

\* AccessLine(), a short read is an error: the dataset is read-only and has
\* no ENVI metadata
ShortReadIsError(b, ds) == IsReadOnly(b, ds) /\ ~ds.ENVI

\* AccessLine(iLine); r is the outcome of Read(), got the line buffer after it
AccessLine(b, ds, s, io, iLine) ==
    IF b.bufNull THEN [err |-> "CE_Failure", s |-> s, io |-> io]
    ELSE IF s.loaded = iLine THEN [err |-> "CE_None", s |-> s, io |-> io]
    ELSE IF ~SeekOk(io)
    THEN IF SeekFailureIsError(b, ds)
         THEN [err |-> "CE_Failure", s |-> s, io |-> Seek(io)]
         ELSE [err |-> "CE_None",
               s |-> [s EXCEPT !.buf = Zeros(b.nLineSize), !.loaded = iLine],
               io |-> Seek(io)]
    ELSE
    Only({ Only({
        IF r.n < b.nLineSize /\ ShortReadIsError(b, ds)
        THEN [err |-> "CE_Failure", s |-> [s EXCEPT !.buf = got], io |-> r.io]
        ELSE [err |-> "CE_None",
              s |-> [s EXCEPT !.buf = SwapBuffer(ZeroFill(got, r.n, b.nLineSize),
                                                 b.eDataType, b.bNativeOrder,
                                                 b.nBlockXSize, Abs(b.nPixelOffset)),
                              !.loaded = iLine],
              io |-> r.io]
        : got \in {Patch(s.buf, 0, r.data, r.n)} })
        : r \in {Read(Seek(io), LineStart(b, iLine), b.nLineSize)} })

\* IReadBlock(0, nBlockYOff, pImage): out is pImage, <<>> on failure
IReadBlock(b, ds, s, io, nBlockYOff) ==
    IF b.bufNull THEN [err |-> "CE_Failure", s |-> s, io |-> io, out |-> <<>>]
    ELSE
    Only({
        IF a.err = "CE_Failure"
        THEN [err |-> "CE_Failure", s |-> a.s, io |-> a.io, out |-> <<>>]
        ELSE [err |-> a.err, s |-> a.s, io |-> a.io,
              out |-> GDALCopyWords(a.s.buf, b.pLineStart, b.nPixelOffset,
                          Zeros(b.nBlockXSize * GDALGetDataTypeSizeBytes(b.eDataType)),
                          0, GDALGetDataTypeSizeBytes(b.eDataType),
                          b.eDataType, b.nBlockXSize)]
        : a \in {AccessLine(b, ds, s, io, nBlockYOff)} })

\* IWriteBlock(0, nBlockYOff, pImage); a is the outcome of AccessLine, disk
\* the line buffer in disk order, w the outcome of Write()
IWriteBlock(b, ds, s, io, nBlockYOff, pImage) ==
    IF b.bufNull THEN [err |-> "CE_Failure", s |-> s, io |-> io]
    ELSE
    Only({ Only({ Only({
        [err |-> IF ~SeekOk(a.io) THEN "CE_Failure"
                 ELSE IF a.err = "CE_None" /\ w.n < b.nLineSize THEN "CE_Failure"
                 ELSE a.err,
         s |-> [a.s EXCEPT !.buf = SwapBuffer(disk, b.eDataType, b.bNativeOrder,
                                              b.nBlockXSize, Abs(b.nPixelOffset)),
                           !.dirty = TRUE],
         io |-> w.io]
        : w \in {IF SeekOk(a.io) /\ a.err = "CE_None"
                 THEN Write(Seek(a.io), WriteStart(b, nBlockYOff), disk, b.nLineSize)
                 ELSE [io |-> Seek(a.io), n |-> 0]} })
        : disk \in {SwapBuffer(
                        GDALCopyWords(pImage, 0, GDALGetDataTypeSizeBytes(b.eDataType),
                                      a.s.buf, b.pLineStart, b.nPixelOffset,
                                      b.eDataType, b.nBlockXSize),
                        b.eDataType, b.bNativeOrder,
                        b.nBlockXSize, Abs(b.nPixelOffset))} })
        : a \in {IF Abs(b.nPixelOffset) > GDALGetDataTypeSizeBytes(b.eDataType)
                 THEN AccessLine(b, ds, s, io, nBlockYOff)
                 ELSE [err |-> "CE_None", s |-> s, io |-> io]} })

(***************************************************************************)
(* The block cache of GDALRasterBand: cache[y] is the dirty block of line  *)
(* y, or <<>> when the cache holds no dirty block for y.                   *)
(***************************************************************************)
Lines(b) == 0 .. (b.nRasterYSize - 1)
EmptyCache(b) == [y \in Lines(b) |-> <<>>]

RECURSIVE FlushBlocks(_, _, _, _, _, _, _)
FlushBlocks(b, ds, s, io, cache, y, err) ==
    IF y >= b.nRasterYSize THEN [err |-> err, s |-> s, io |-> io]
    ELSE IF cache[y] = <<>> \/ err # "CE_None"
         THEN FlushBlocks(b, ds, s, io, cache, y + 1, err)
         ELSE Only({FlushBlocks(b, ds, w.s, w.io, cache, y + 1, w.err)
                    : w \in {IWriteBlock(b, ds, s, io, y, cache[y])}})

\* GDALRasterBand::FlushCache(): every dirty block is written with
\* IWriteBlock, in block order, until one fails; all blocks are dropped.
GDALRasterBandFlushCache(b, ds, s, io, cache) ==
    FlushBlocks(b, ds, s, io, cache, 0, "CE_None")

\* FlushCache that leaves bDirty set when the block cache fails
AfterCacheErrorKeepDirty(r) ==
    [err |-> r.err, s |-> r.s, io |-> r.io,
     cacheErr |-> r.err, wasDirty |-> r.s.dirty]

\* FlushCache(), GDALRasterBand::FlushCache() returned the error r.err
AfterCacheError(r) ==
    [err |-> r.err, s |-> [r.s EXCEPT !.dirty = FALSE], io |-> r.io,
     cacheErr |-> r.err, wasDirty |-> r.s.dirty]

\* FlushFile that leaves bDirty set when VSIFFlushL fails
FlushFileKeepDirty(r, flushOk) ==
    IF r.s.dirty
    THEN [err |-> IF flushOk THEN "CE_None" ELSE "CE_Failure",
          s |-> [r.s EXCEPT !.dirty = ~flushOk],
          io |-> [r.io EXCEPT !.flushes = @ + 1],
          cacheErr |-> r.err, wasDirty |-> TRUE]
    ELSE [err |-> "CE_None", s |-> r.s, io |-> r.io,
          cacheErr |-> r.err, wasDirty |-> FALSE]

\* FlushCache(), the block cache was flushed: VSIFFlushL if bDirty
FlushFile(r, flushOk) ==
    IF r.s.dirty
    THEN [err |-> IF flushOk THEN "CE_None" ELSE "CE_Failure",
          s |-> [r.s EXCEPT !.dirty = FALSE],
          io |-> [r.io EXCEPT !.flushes = @ + 1],
          cacheErr |-> r.err, wasDirty |-> TRUE]
    ELSE [err |-> "CE_None", s |-> r.s, io |-> r.io,
          cacheErr |-> r.err, wasDirty |-> FALSE]

\* RawRasterBand::FlushCache(); flushOk is the outcome of VSIFFlushL
FlushCache(b, ds, s, io, cache, flushOk) ==
    Only({IF r.err # "CE_None" THEN AfterCacheError(r) ELSE FlushFile(r, flushOk)
          : r \in {GDALRasterBandFlushCache(b, ds, s, io, cache)}})

(***************************************************************************)
(* ~RawRasterBand().  calls is the sequence of the calls the destructor    *)
(* makes, those FlushCache() makes on the file included; closeOk is the    *)
(* outcome of VSIFCloseL.  The line buffer is gone afterwards.             *)
(***************************************************************************)
Repeat(x, n) == [i \in 1..n |-> x]

\* the destructor that closes a file it does not own
ClosesFileAlways(b) == TRUE

\* if (bOwnsFP)
ClosesFile(b) == b.bOwnsFP

Destructor(b, ds, s, io, cache, flushOk, closeOk) ==
    Only({[s |-> [f.s EXCEPT !.buf = <<>>], io |-> f.io,
           closed |-> ClosesFile(b),
           err |-> IF ClosesFile(b) /\ ~closeOk THEN "CE_Failure" ELSE "CE_None",
           calls |-> <<"FlushCache">>
                     \o Repeat("VSIFWriteL", f.io.writes)
                     \o Repeat("VSIFFlushL", f.io.flushes)
                     \o (IF ClosesFile(b) THEN <<"VSIFCloseL">> ELSE <<>>)
                     \o <<"CPLFree">>,
           cacheErr |-> f.cacheErr, wasDirty |-> f.wasDirty]
          : f \in {FlushCache(b, ds, s, io, cache, flushOk)} })

(***************************************************************************)
(* Windowed I/O.  A request req is the argument list of IRasterIO:         *)
(* [eRWFlag, nXOff, nYOff, nXSize, nYSize, nBufXSize, nBufYSize, eBufType, *)
(*  nPixelSpace, nLineSpace, eResampleAlg, cancelAt, pat, data]; data is   *)
(* pData, cancelAt the call of pfnProgress that returns FALSE (0: there is *)
(* no callback; a callback that is never called that often never returns   *)
(* FALSE).  The band has no overviews.  The result "Trap" is         *)
(* undefined behaviour: a division by zero or an access outside a buffer.  *)
(***************************************************************************)
DirectIOLineSize == 50000

\* the words of a strided run lie inside a buffer of n bytes
WordsFit(n, base, wordSize, count, stride) ==
    count <= 0 \/ (base >= 0 /\ base + (count - 1) * stride + wordSize <= n)

\* AccessBlock(nBlockOff, nBlockSize, pData): data is pData afterwards; r is
\* the outcome of Read(), got is pData after it
AccessBlock(b, io, nBlockOff, nBlockSize, pData) ==
    IF ~SeekOk(io)
    THEN [err |-> "CE_None", io |-> Seek(io), data |-> ZeroFill(pData, 0, nBlockSize)]
    ELSE
    Only({ Only({
        IF r.n < nBlockSize
        THEN [err |-> "CE_None", io |-> r.io, data |-> ZeroFill(got, r.n, nBlockSize)]
        ELSE IF b.bNativeOrder \/ b.eDataType = "GDT_Byte"
        THEN [err |-> "CE_None", io |-> r.io, data |-> got]
        ELSE IF b.nPixelOffset = 0
                \/ ~WordsFit(nBlockSize, 0, GDALGetDataTypeSizeBytes(b.eDataType),
                             nBlockSize \div b.nPixelOffset, b.nPixelOffset)
        THEN [err |-> "Trap", io |-> r.io, data |-> got]
        ELSE [err |-> "CE_None", io |-> r.io,
              data |-> SwapBuffer(got, b.eDataType, b.bNativeOrder,
                                  nBlockSize \div b.nPixelOffset, b.nPixelOffset)]
        : got \in {Patch(pData, 0, r.data, r.n)} })
        : r \in {Read(Seek(io), nBlockOff, nBlockSize)} })

\* the test with the 20% of the comment above the function
MoreThanAFifthLoaded(b, cache, nLineOff, nLines) ==
    Cardinality({y \in nLineOff .. (nLineOff + nLines - 1) :
                    y \in Lines(b) /\ cache[y] # <<>>}) > nLines \div 5

\* IsSignificantNumberOfLinesLoaded(nLineOff, nLines): the blocks of the
\* block cache among the lines asked for
IsSignificantNumberOfLinesLoaded(b, cache, nLineOff, nLines) ==
    Cardinality({y \in nLineOff .. (nLineOff + nLines - 1) :
                    y \in Lines(b) /\ cache[y] # <<>>}) > nLines \div 20

\* CPLTestBool that takes YES alone as true
CPLTestBoolYesOnly(pszValue) == pszValue = "YES"

\* CPLTestBool(): every value is true but NO, FALSE, OFF and 0
CPLTestBoolAny(pszValue) == TRUE
CPLTestBool(pszValue) == pszValue \notin {"NO", "FALSE", "OFF", "0"}

\* CanUseDirectIO(nXOff, nYOff, nXSize, nYSize, eBufType, psExtraArg)
CanUseDirectIO(b, ds, cache, req) ==
    IF b.nPixelOffset < 0 \/ req.eResampleAlg # "GRIORA_NearestNeighbour"
    THEN FALSE
    ELSE IF ds.oneBigRead = "unset"
    THEN ~ \/ b.nLineSize < DirectIOLineSize
           \/ req.nXSize > ((b.nLineSize \div b.nPixelOffset) \div 5) * 2
           \/ IsSignificantNumberOfLinesLoaded(b, cache, req.nYOff, req.nYSize)
    ELSE CPLTestBool(ds.oneBigRead)

\* IRasterIO(), the test of "the simplest case": a contiguous block
IsContiguousRequest(b, req) ==
    /\ req.nXSize = b.nRasterXSize
    /\ req.nXSize = req.nBufXSize
    /\ req.nYSize = req.nBufYSize
    /\ req.eBufType = b.eDataType
    /\ b.nPixelOffset = GDALGetDataTypeSizeBytes(b.eDataType)
    /\ req.nPixelSpace = GDALGetDataTypeSizeBytes(req.eBufType)
    /\ req.nLineSpace = req.nPixelSpace * req.nXSize

\* IRasterIO(), nOffset of a contiguous block: nYOff * nLineOffset is an int
ContiguousOffset(b, ds, nYOff) ==
    IF b.nLineOffset >= 0
    THEN AddOff(b.nImgOffset, ToOff(IntResult(nYOff * b.nLineOffset, ds.ub)))
    ELSE SubOff(b.nImgOffset, MulOff(nYOff, ToOff(NegInt(b.nLineOffset, ds.ub))))

\* IRasterIO(), nOffset of line nLine of the window: nXOff * nPixelOffset
\* is an int
WindowOffset(b, ds, nLine, nXOff) ==
    LET o1 == IF b.nLineOffset >= 0
              THEN AddOff(b.nImgOffset, MulOff(nLine, ToOff(b.nLineOffset)))
              ELSE SubOff(b.nImgOffset,
                          MulOff(nLine, ToOff(NegInt(b.nLineOffset, ds.ub))))
    IN IF b.nPixelOffset >= 0
       THEN AddOff(o1, ToOff(IntResult(nXOff * b.nPixelOffset, ds.ub)))
       ELSE SubOff(o1, MulOff(nXOff, ToOff(NegInt(b.nPixelOffset, ds.ub))))

\* nYOff + (vsi_l_offset)(iLine * dfSrcYInc) and (vsi_l_offset)(iPixel * dfSrcXInc)
SrcLine(req, iLine) == req.nYOff + (iLine * req.nYSize) \div req.nBufYSize
SrcPixel(req, iPixel) == (iPixel * req.nXSize) \div req.nBufXSize

\* the staging buffer pabyData: nPixelOffset * nXSize bytes
StagingSize(b, req) == ToOff(b.nPixelOffset) * req.nXSize

\* one word per buffer pixel, from the staging buffer to pData (a read)
RECURSIVE CopyPixelsOut(_, _, _, _, _, _)
CopyPixelsOut(b, req, pabyData, pData, iLine, iPixel) ==
    IF iPixel >= req.nBufXSize THEN pData
    ELSE CopyPixelsOut(b, req, pabyData,
            GDALCopyWords(pabyData, SrcPixel(req, iPixel) * b.nPixelOffset,
                          b.nPixelOffset,
                          pData, iLine * req.nLineSpace + iPixel * req.nPixelSpace,
                          req.nPixelSpace, b.eDataType, 1),
            iLine, iPixel + 1)

\* one word per buffer pixel, from pData to the staging buffer (a write)
RECURSIVE CopyPixelsIn(_, _, _, _, _, _)
CopyPixelsIn(b, req, pData, pabyData, iLine, iPixel) ==
    IF iPixel >= req.nBufXSize THEN pabyData
    ELSE CopyPixelsIn(b, req, pData,
            GDALCopyWords(pData, iLine * req.nLineSpace + iPixel * req.nPixelSpace,
                          req.nPixelSpace,
                          pabyData, SrcPixel(req, iPixel) * b.nPixelOffset,
                          b.nPixelOffset, b.eDataType, 1),
            iLine, iPixel + 1)

\* psExtraArg->pfnProgress(1.0 * (iLine + 1) / nBufYSize, ...), when there is
\* a callback
ReportProgress(io, req, iLine) ==
    IF req.cancelAt = 0 THEN io
    ELSE [io EXCEPT !.progress = Append(@, <<iLine + 1, req.nBufYSize>>)]

\* IRasterIO(), read, case 2: the loop over the lines of the buffer; a is
\* the outcome of AccessBlock, copied is pData after the line was copied
RECURSIVE DirectReadLines(_, _, _, _, _, _, _)
DirectReadLines(b, ds, io, req, pData, pabyData, iLine) ==
    IF iLine >= req.nBufYSize
    THEN [err |-> "CE_None", io |-> io, data |-> pData]
    ELSE
    Only({
        IF a.err # "CE_None"
        THEN [err |-> a.err, io |-> a.io, data |-> pData]
        ELSE Only({
            IF req.cancelAt = iLine + 1
            THEN [err |-> "CE_Failure", io |-> ReportProgress(a.io, req, iLine),
                  data |-> copied]
            ELSE DirectReadLines(b, ds, ReportProgress(a.io, req, iLine), req,
                                 copied, a.data, iLine + 1)
            : copied \in {IF req.nXSize = req.nBufXSize /\ req.nYSize = req.nBufYSize
                          THEN GDALCopyWords(a.data, 0, b.nPixelOffset,
                                             pData, iLine * req.nLineSpace,
                                             req.nPixelSpace, b.eDataType, req.nXSize)
                          ELSE CopyPixelsOut(b, req, a.data, pData, iLine, 0)} })
        : a \in {AccessBlock(b, io,
                             WindowOffset(b, ds, SrcLine(req, iLine), req.nXOff),
                             StagingSize(b, req), pabyData)} })

\* IRasterIO(), read on the direct path
DirectRead(b, ds, io, req) ==
    IF IsContiguousRequest(b, req)
    THEN AccessBlock(b, io, ContiguousOffset(b, ds, req.nYOff),
                     req.nXSize * req.nYSize * GDALGetDataTypeSizeBytes(b.eDataType),
                     req.data)
    ELSE IF StagingSize(b, req) = 0 /\ ds.zeroAllocNull
    THEN [err |-> "CE_Failure", io |-> io, data |-> req.data]
    ELSE IF ~WordsFit(StagingSize(b, req), 0, GDALGetDataTypeSizeBytes(b.eDataType),
                      req.nXSize, b.nPixelOffset)
    THEN [err |-> "Trap", io |-> io, data |-> req.data]
    ELSE DirectReadLines(b, ds, io, req, req.data, Uninit(StagingSize(b, req)), 0)

\* IRasterIO(), write, case 2: the loop over the lines of the buffer; a is
\* the outcome of AccessBlock, disk the staging buffer in disk order, w the
\* outcome of Write()
RECURSIVE DirectWriteLines(_, _, _, _, _, _)
DirectWriteLines(b, ds, io, req, pabyData, iLine) ==
    IF iLine >= req.nBufYSize
    THEN [err |-> "CE_None", io |-> io, dirty |-> TRUE]
    ELSE
    Only({
        IF a.err = "Trap"
        THEN [err |-> "Trap", io |-> a.io, dirty |-> FALSE]
        ELSE IF ~SeekOk(a.io)
        THEN [err |-> "CE_Failure", io |-> Seek(a.io), dirty |-> FALSE]
        ELSE Only({ Only({
            IF w.n < StagingSize(b, req)
            THEN [err |-> "CE_Failure", io |-> w.io, dirty |-> FALSE]
            ELSE DirectWriteLines(b, ds, w.io, req,
                                  SwapBuffer(disk, b.eDataType, b.bNativeOrder,
                                             req.nXSize, b.nPixelOffset),
                                  iLine + 1)
            : w \in {Write(Seek(a.io),
                           WindowOffset(b, ds, SrcLine(req, iLine), req.nXOff),
                           disk, StagingSize(b, req))} })
            : disk \in {SwapBuffer(
                            IF req.nXSize = req.nBufXSize /\ req.nYSize = req.nBufYSize
                            THEN GDALCopyWords(req.data, iLine * req.nLineSpace,
                                               req.nPixelSpace,
                                               a.data, 0, b.nPixelOffset,
                                               b.eDataType, req.nXSize)
                            ELSE CopyPixelsIn(b, req, req.data, a.data, iLine, 0),
                            b.eDataType, b.bNativeOrder,
                            req.nXSize, b.nPixelOffset)} })
        : a \in {IF b.nPixelOffset > GDALGetDataTypeSizeBytes(b.eDataType)
                 THEN AccessBlock(b, io,
                                  WindowOffset(b, ds, SrcLine(req, iLine), req.nXOff),
                                  StagingSize(b, req), pabyData)
                 ELSE [err |-> "CE_None", io |-> io, data |-> pabyData]} })

\* IRasterIO(), write of a contiguous block: disk is pData in disk order
ContiguousWrite(b, ds, io, req) ==
    Only({
        IF ~SeekOk(io)
        THEN [err |-> "CE_Failure", io |-> Seek(io), data |-> disk, dirty |-> FALSE]
        ELSE Only({
            IF w.n < req.nXSize * req.nYSize * GDALGetDataTypeSizeBytes(b.eDataType)
            THEN [err |-> "CE_Failure", io |-> w.io, data |-> disk, dirty |-> FALSE]
            ELSE [err |-> "CE_None", io |-> w.io,
                  data |-> SwapBuffer(disk, b.eDataType, b.bNativeOrder,
                                      req.nXSize, b.nPixelOffset),
                  dirty |-> FALSE]
            : w \in {Write(Seek(io), ContiguousOffset(b, ds, req.nYOff), disk,
                           req.nXSize * req.nYSize
                               * GDALGetDataTypeSizeBytes(b.eDataType))} })
        : disk \in {SwapBuffer(req.data, b.eDataType, b.bNativeOrder,
                               req.nXSize, b.nPixelOffset)} })

\* IRasterIO(), write on the direct path: data is pData afterwards, dirty
\* whether bDirty is set
DirectWrite(b, ds, io, req) ==
    IF IsContiguousRequest(b, req)
    THEN ContiguousWrite(b, ds, io, req)
    ELSE IF StagingSize(b, req) = 0 /\ ds.zeroAllocNull
    THEN [err |-> "CE_Failure", io |-> io, data |-> req.data, dirty |-> FALSE]
    ELSE IF ~WordsFit(StagingSize(b, req), 0, GDALGetDataTypeSizeBytes(b.eDataType),
                      req.nXSize, b.nPixelOffset)
    THEN [err |-> "Trap", io |-> io, data |-> req.data, dirty |-> FALSE]
    ELSE Only({[err |-> r.err, io |-> r.io, data |-> req.data, dirty |-> r.dirty]
               : r \in {DirectWriteLines(b, ds, io, req,
                                         Uninit(StagingSize(b, req)), 0)}})

(***************************************************************************)
(* GDALRasterBand::IRasterIO, the block-cache path, for requests without   *)
(* resampling: every line of the window goes through the block of its      *)
(* line.  The cache keeps the blocks that were written (they are dirty);   *)
(* a block that was only read is dropped at once.                          *)
(***************************************************************************)
\* the block of line y: the cached block, or the line IReadBlock returns
GetLockedBlockRef(b, ds, s, io, cache, y) ==
    IF cache[y] # <<>>
    THEN [err |-> "CE_None", s |-> s, io |-> io, out |-> cache[y]]
    ELSE IReadBlock(b, ds, s, io, y)

\* one line of the request between a block and pData: in one piece when the
\* buffer is as wide as the window, pixel by pixel, the nearest one, when not
RECURSIVE BlockPixelsOut(_, _, _, _, _, _)
BlockPixelsOut(b, req, blk, pData, iLine, iPixel) ==
    IF iPixel >= req.nBufXSize THEN pData
    ELSE Only({BlockPixelsOut(b, req, blk, d, iLine, iPixel + 1)
               : d \in {GDALCopyWords(blk,
                            (req.nXOff + SrcPixel(req, iPixel))
                                * GDALGetDataTypeSizeBytes(b.eDataType),
                            GDALGetDataTypeSizeBytes(b.eDataType),
                            pData, iLine * req.nLineSpace + iPixel * req.nPixelSpace,
                            req.nPixelSpace, b.eDataType, 1)}})

BlockLineOut(b, req, blk, pData, iLine) ==
    IF req.nBufXSize = req.nXSize
    THEN GDALCopyWords(blk, req.nXOff * GDALGetDataTypeSizeBytes(b.eDataType),
                       GDALGetDataTypeSizeBytes(b.eDataType),
                       pData, iLine * req.nLineSpace, req.nPixelSpace,
                       b.eDataType, req.nXSize)
    ELSE BlockPixelsOut(b, req, blk, pData, iLine, 0)

RECURSIVE BlockPixelsIn(_, _, _, _, _, _)
BlockPixelsIn(b, req, pData, blk, iLine, iPixel) ==
    IF iPixel >= req.nBufXSize THEN blk
    ELSE Only({BlockPixelsIn(b, req, pData, d, iLine, iPixel + 1)
               : d \in {GDALCopyWords(pData,
                            iLine * req.nLineSpace + iPixel * req.nPixelSpace,
                            req.nPixelSpace, blk,
                            (req.nXOff + SrcPixel(req, iPixel))
                                * GDALGetDataTypeSizeBytes(b.eDataType),
                            GDALGetDataTypeSizeBytes(b.eDataType),
                            b.eDataType, 1)}})

BlockLineIn(b, req, pData, blk, iLine) ==
    IF req.nBufXSize = req.nXSize
    THEN GDALCopyWords(pData, iLine * req.nLineSpace, req.nPixelSpace, blk,
                       req.nXOff * GDALGetDataTypeSizeBytes(b.eDataType),
                       GDALGetDataTypeSizeBytes(b.eDataType),
                       b.eDataType, req.nXSize)
    ELSE BlockPixelsIn(b, req, pData, blk, iLine, 0)

RECURSIVE GenericReadLines(_, _, _, _, _, _, _, _)
GenericReadLines(b, ds, s, io, cache, req, pData, iLine) ==
    IF iLine >= req.nBufYSize
    THEN [err |-> "CE_None", s |-> s, io |-> io, cache |-> cache, data |-> pData]
    ELSE
    Only({
        IF blk.err # "CE_None"
        THEN [err |-> "CE_Failure", s |-> blk.s, io |-> blk.io, cache |-> cache,
              data |-> pData]
        ELSE GenericReadLines(b, ds, blk.s, blk.io, cache, req,
                 BlockLineOut(b, req, blk.out, pData, iLine),
                 iLine + 1)
        : blk \in {GetLockedBlockRef(b, ds, s, io, cache, SrcLine(req, iLine))} })

\* blk is the block of the line: not read when the window covers the line
\* (bJustInitialize) and the cache does not hold it
RECURSIVE GenericWriteLines(_, _, _, _, _, _, _)
GenericWriteLines(b, ds, s, io, cache, req, iLine) ==
    IF iLine >= req.nBufYSize
    THEN [err |-> "CE_None", s |-> s, io |-> io, cache |-> cache, data |-> req.data]
    ELSE
    Only({
        IF blk.err # "CE_None"
        THEN [err |-> "CE_Failure", s |-> blk.s, io |-> blk.io, cache |-> cache,
              data |-> req.data]
        ELSE Only({GenericWriteLines(b, ds, blk.s, blk.io, cache1, req, iLine + 1)
                   : cache1 \in {[cache EXCEPT ![SrcLine(req, iLine)] =
                        BlockLineIn(b, req, req.data, blk.out, iLine)]} })
        : blk \in {IF /\ req.nXOff = 0 /\ req.nXSize = b.nBlockXSize
                      /\ cache[SrcLine(req, iLine)] = <<>>
                   THEN [err |-> "CE_None", s |-> s, io |-> io,
                         out |-> Uninit(b.nBlockXSize
                                        * GDALGetDataTypeSizeBytes(b.eDataType))]
                   ELSE GetLockedBlockRef(b, ds, s, io, cache,
                                          SrcLine(req, iLine))} })

\* GDALRasterBand::IRasterIO(eRWFlag, ...)
GDALRasterBandIRasterIO(b, ds, s, io, cache, req) ==
    IF req.eRWFlag = "GF_Read"
    THEN GenericReadLines(b, ds, s, io, cache, req, req.data, 0)
    ELSE GenericWriteLines(b, ds, s, io, cache, req, 0)

\* RawRasterBand::IRasterIO(eRWFlag, ...): out is pData afterwards, direct
\* whether the direct path was taken
IRasterIO(b, ds, s, io, cache, req) ==
    IF ~CanUseDirectIO(b, ds, cache, req)
    THEN Only({[err |-> r.err, s |-> r.s, io |-> r.io, cache |-> r.cache,
                out |-> r.data, direct |-> FALSE]
               : r \in {GDALRasterBandIRasterIO(b, ds, s, io, cache, req)}})
    ELSE IF req.eRWFlag = "GF_Read"
    THEN Only({[err |-> r.err, s |-> s, io |-> r.io, cache |-> cache,
                out |-> r.data, direct |-> TRUE]
               : r \in {DirectRead(b, ds, io, req)}})
    ELSE Only({[err |-> r.err, s |-> [s EXCEPT !.dirty = s.dirty \/ r.dirty],
                io |-> r.io, cache |-> cache, out |-> r.data, direct |-> TRUE]
               : r \in {DirectWrite(b, ds, io, req)}})

(***************************************************************************)
(* RawDataset.  The bands of the dataset are a sequence of records         *)
(* [raw, b, s, cache]: whether the band is a RawRasterBand, its            *)
(* descriptor, its scanline cache and its block cache.  A dataset request  *)
(* is a band request with nBandCount, panBandMap and nBandSpace.           *)
(***************************************************************************)
\* EQUAL(): comparison without regard to case, of the values in use
ToUpper(v) ==
    CASE v = "pixel" -> "PIXEL"
      [] v = "band" -> "BAND"
      [] v = "yes" -> "YES"
      [] v = "on" -> "ON"
      [] v = "off" -> "OFF"
      [] OTHER -> v
EQUAL(a, b) == ToUpper(a) = ToUpper(b)

\* the caller's buffer from byte off on
SubBuffer(pData, off) == Slice(pData, off, Len(pData) - off)

\* the I/O of one band: the virtual IRasterIO behind GDALRasterBand::RasterIO
\* (virtual) or the block-cache path GDALRasterBand::IRasterIO; the I/O of
\* a band of another class is outside the model and leaves the buffer alone
BandIO(bs, ds, io, req, virtual) ==
    IF ~bs.raw
    THEN [err |-> "CE_None", s |-> bs.s, io |-> io, cache |-> bs.cache,
          out |-> req.data, direct |-> FALSE]
    ELSE IF virtual
    THEN IRasterIO(bs.b, ds, bs.s, io, bs.cache, req)
    ELSE Only({[err |-> r.err, s |-> r.s, io |-> r.io, cache |-> r.cache,
                out |-> r.data, direct |-> FALSE]
               : r \in {GDALRasterBandIRasterIO(bs.b, ds, bs.s, io, bs.cache, req)}})

\* GDALCreateScaledProgress(dfMin, dfMax, pfnProgress, pData): the wrapper
\* for a callback and its data; dfMin and dfMax are fractions <<p, q>>
GDALCreateScaledProgress(dfMin, dfMax, pfnProgress, pData) ==
    [dfMin |-> dfMin, dfMax |-> dfMax, pfnProgress |-> pfnProgress, pData |-> pData]

\* psExtraArg as the I/O of band iBandIndex finds it: the callback and the
\* data of the request, or on the per-band direct path GDALScaledProgress
\* and the wrapper created for the band
BandExtraArg(req, virtual, iBandIndex) ==
    IF virtual
    THEN [pfnProgress |-> "GDALScaledProgress",
          pProgressData |->
              GDALCreateScaledProgress(<<iBandIndex, req.nBandCount>>,
                                       <<iBandIndex + 1, req.nBandCount>>,
                                       req.pfnProgress, req.pProgressData)]
    ELSE [pfnProgress |-> req.pfnProgress, pProgressData |-> req.pProgressData]

\* psExtraArg after the loop over the bands that left it as arg: nothing
\* is put back
LeaveExtraArg(req, arg) == arg

\* psExtraArg after the loop over the bands that left it as arg: the
\* callback and the data of the caller are put back
RestoreExtraArg(req, arg) ==
    [arg EXCEPT !.pfnProgress = req.pfnProgress,
                !.pProgressData = req.pProgressData]

\* the loop over the bands of a request, band iBandIndex on the sub-buffer
\* pData + iBandIndex * nBandSpace, until one fails; calls lists the band
\* I/O issued, with psExtraArg as the band found it and, on the per-band
\* direct path, the wrapper handed to GDALDestroyScaledProgress after it
RECURSIVE BandLoop(_, _, _, _, _, _, _, _)
BandLoop(bands, ds, io, req, pData, virtual, calls, iBandIndex) ==
    IF iBandIndex >= req.nBandCount
    THEN [err |-> "CE_None", bands |-> bands, io |-> io, data |-> pData,
          calls |-> calls]
    ELSE
    Only({ Only({
        IF r.err # "CE_None"
        THEN [err |-> r.err, bands |-> nx.bands, io |-> r.io, data |-> nx.data,
              calls |-> nx.calls]
        ELSE BandLoop(nx.bands, ds, r.io, req, nx.data, virtual, nx.calls,
                      iBandIndex + 1)
        : nx \in {[bands |-> [bands EXCEPT ![req.panBandMap[iBandIndex + 1]] =
                                 [@ EXCEPT !.s = r.s, !.cache = r.cache]],
                   data |-> Patch(pData, iBandIndex * req.nBandSpace,
                                  r.out, Len(r.out)),
                   calls |-> Append(calls,
                                [band |-> req.panBandMap[iBandIndex + 1],
                                 off |-> iBandIndex * req.nBandSpace,
                                 direct |-> r.direct, err |-> r.err,
                                 arg |-> BandExtraArg(req, virtual, iBandIndex),
                                 destroyed |->
                                     IF virtual
                                     THEN <<BandExtraArg(req, virtual, iBandIndex)
                                                .pProgressData>>
                                     ELSE <<>>])]} })
        : r \in {BandIO(bands[req.panBandMap[iBandIndex + 1]], ds, io,
                        [req EXCEPT !.data =
                            SubBuffer(pData, iBandIndex * req.nBandSpace)],
                        virtual)} })

\* GDALDataset::IRasterIO(): block based for a pixel interleaved dataset,
\* band after band otherwise
GDALDatasetIRasterIO(bands, ds, io, req) ==
    BandLoop(bands, ds, io, req, req.data,
             ~ (/\ req.nXSize = req.nBufXSize /\ req.nYSize = req.nBufYSize
                /\ req.nBandCount > 1
                /\ ds.interleave # "unset" /\ EQUAL(ds.interleave, "PIXEL")),
             <<>>, 0)

\* a first loop that looks at the first band of the request only
FirstBandDirect(bands, ds, req) ==
    /\ bands[req.panBandMap[1]].raw
    /\ CanUseDirectIO(bands[req.panBandMap[1]].b, ds,
                      bands[req.panBandMap[1]].cache, req)

\* RawDataset::IRasterIO(), the first loop: every band of the request is a
\* RawRasterBand whose CanUseDirectIO returns true
AllBandsDirect(bands, ds, req) ==
    \A i \in 1..req.nBandCount :
        /\ bands[req.panBandMap[i]].raw
        /\ CanUseDirectIO(bands[req.panBandMap[i]].b, ds,
                          bands[req.panBandMap[i]].cache, req)

\* RawDataset::IRasterIO(eRWFlag, ...): delegated whether the request went
\* to GDALDataset::IRasterIO, calls the band I/O the dispatcher issued
RawDatasetIRasterIO(bands, ds, io, req) ==
    IF /\ req.nXSize = req.nBufXSize /\ req.nYSize = req.nBufYSize
       /\ req.nBandCount > 1
       /\ ds.interleave # "unset" /\ EQUAL(ds.interleave, "PIXEL")
       /\ AllBandsDirect(bands, ds, req)
    THEN Only({[err |-> r.err, bands |-> r.bands, io |-> r.io, data |-> r.data,
                calls |-> r.calls, delegated |-> FALSE,
                arg |-> RestoreExtraArg(req, r.calls[Len(r.calls)].arg)]
               : r \in {BandLoop(bands, ds, io, req, req.data, TRUE, <<>>, 0)}})
    ELSE Only({[err |-> r.err, bands |-> r.bands, io |-> r.io, data |-> r.data,
                calls |-> <<>>, delegated |-> TRUE,
                arg |-> BandExtraArg(req, FALSE, 0)]
               : r \in {GDALDatasetIRasterIO(bands, ds, io, req)}})

(***************************************************************************)
(* RawDataset::GetRawBinaryLayout(sLayout).                                *)
(***************************************************************************)
\* a comparison of the strides alone
StridesDiffer(acc, b) ==
    \/ acc.nPixelOffset # b.nPixelOffset
    \/ acc.nLineOffset # b.nLineOffset

\* band b is not laid out as band 1 is
BandDiffers(acc, b) ==
    \/ acc.nPixelOffset # b.nPixelOffset
    \/ acc.nLineOffset # b.nLineOffset
    \/ acc.bNativeOrder # b.bNativeOrder
    \/ acc.eDT # b.eDataType

\* the loop over the bands: acc holds what band 1 gave and the band offset,
\* i is the band looked at
RECURSIVE LayoutLoop(_, _, _, _)
LayoutLoop(bands, ub, acc, i) ==
    IF i > Len(bands) THEN [ok |-> TRUE, acc |-> acc]
    ELSE IF ~bands[i].raw THEN [ok |-> FALSE, acc |-> acc]
    ELSE IF i = 1
    THEN LayoutLoop(bands, ub,
                    [acc EXCEPT !.nImgOffset = bands[1].b.nImgOffset,
                                !.nPixelOffset = bands[1].b.nPixelOffset,
                                !.nLineOffset = bands[1].b.nLineOffset,
                                !.bNativeOrder = bands[1].b.bNativeOrder,
                                !.eDT = bands[1].b.eDataType],
                    2)
    ELSE IF BandDiffers(acc, bands[i].b)
    THEN [ok |-> FALSE, acc |-> acc]
    ELSE IF i = 2
    THEN LayoutLoop(bands, ub,
                    [acc EXCEPT !.nBandOffset =
                        SubGIntBig(ToGIntBig(bands[2].b.nImgOffset),
                                   ToGIntBig(acc.nImgOffset), ub)],
                    3)
    ELSE IF MulGIntBig(acc.nBandOffset, i - 1, ub)
              # SubGIntBig(ToGIntBig(bands[i].b.nImgOffset),
                           ToGIntBig(acc.nImgOffset), ub)
    THEN [ok |-> FALSE, acc |-> acc]
    ELSE LayoutLoop(bands, ub, acc, i + 1)

\* the interleaving of nBands bands with the strides of acc
Interleaving(acc, nBands, nRasterXSize, nRasterYSize, ub) ==
    LET nDTSize == GDALGetDataTypeSizeBytes(acc.eDT)
    IN IF nBands <= 1 THEN "UNKNOWN"
       ELSE IF /\ acc.nPixelOffset = MulInt(nBands, nDTSize, ub)
               /\ acc.nLineOffset = MulInt(acc.nPixelOffset, nRasterXSize, ub)
               /\ acc.nBandOffset = nDTSize
       THEN "BIP"
       ELSE IF /\ acc.nPixelOffset = nDTSize
               /\ acc.nLineOffset = MulInt(MulInt(nDTSize, nBands, ub),
                                           nRasterXSize, ub)
               /\ acc.nBandOffset = MulGIntBig(nDTSize, nRasterXSize, ub)
       THEN "BIL"
       ELSE IF /\ acc.nPixelOffset = nDTSize
               /\ acc.nLineOffset = MulInt(nDTSize, nRasterXSize, ub)
               /\ acc.nBandOffset = MulGIntBig(acc.nLineOffset, nRasterYSize, ub)
       THEN "BSQ"
       ELSE "UNKNOWN"

\* ok is the value returned; sLayout is written when it is true
GetRawBinaryLayout(bands, nRasterXSize, nRasterYSize, ds) ==
    LET r == LayoutLoop(bands, ds.ub,
                        [nImgOffset |-> 0, nBandOffset |-> 0, nPixelOffset |-> 0,
                         nLineOffset |-> 0, bNativeOrder |-> FALSE,
                         eDT |-> "GDT_Unknown"], 1)
    IN IF ~r.ok THEN [ok |-> FALSE, sLayout |-> "-"]
       ELSE [ok |-> TRUE,
             sLayout |->
                [eInterleaving |-> Interleaving(r.acc, Len(bands), nRasterXSize,
                                                nRasterYSize, ds.ub),
                 eDataType |-> r.acc.eDT,
                 bLittleEndianOrder |-> IF ds.CPL_LSB THEN r.acc.bNativeOrder
                                        ELSE ~r.acc.bNativeOrder,
                 nImageOffset |-> r.acc.nImgOffset,
                 nPixelOffset |-> r.acc.nPixelOffset,
                 nLineOffset |-> r.acc.nLineOffset,
                 nBandOffset |-> r.acc.nBandOffset]]

(***************************************************************************)
(* RAWDatasetCheckMemoryUsage().  The thresholds 10 and 20000 are the      *)
(* code's; for pixel_stride * width to pass 20000, int is SizeIntBits wide *)
(* here and GUInt64 / vsi_l_offset twice that.  CPLSM is the arithmetic    *)
(* that throws on overflow: Overflow stands for the exception.             *)
(***************************************************************************)
SizeIntBits == 12
SizeMod == Pow2(2 * SizeIntBits)
SIZE_INT_MAX == Pow2(SizeIntBits - 1) - 1
SIZE_INT_MIN == -SIZE_INT_MAX - 1
Overflow == -1

\* static_cast<GUInt64>(i) of an int
ToGUInt64(i) == i % SizeMod

CPLSMAdd(a, b) ==
    IF a = Overflow \/ b = Overflow THEN Overflow
    ELSE IF a > (SizeMod - 1) - b THEN Overflow ELSE a + b

CPLSMMul(a, b) ==
    IF a = Overflow \/ b = Overflow THEN Overflow
    ELSE IF a = 0 \/ b = 0 THEN 0
    ELSE IF a > (SizeMod - 1) \div b THEN Overflow ELSE a * b

\* static_cast<vsi_l_offset>(nPixelOffset) * nXSize: the product modulo the
\* width of vsi_l_offset
PixelBytes(nPixelOffset, nXSize) == (nPixelOffset * nXSize) % SizeMod

\* whether the size of the file is checked
CheckFileSize(a, pszCheck) ==
    /\ \/ a.nBands > 10
       \/ PixelBytes(a.nPixelOffset, a.nXSize) > 20000
       \/ pszCheck # "unset" /\ CPLTestBool(pszCheck)
    /\ ~(pszCheck # "unset" /\ ~CPLTestBool(pszCheck))

ExpectedFileSize(a) ==
    CPLSMAdd(CPLSMAdd(CPLSMAdd(a.nHeaderSize,
                               CPLSMMul(a.nBandOffset, ToGUInt64(a.nBands - 1))),
                      IF a.nLineOffset >= 0
                      THEN CPLSMMul(ToGUInt64(a.nYSize - 1), ToGUInt64(a.nLineOffset))
                      ELSE 0),
             IF a.nPixelOffset >= 0
             THEN CPLSMMul(ToGUInt64(a.nXSize - 1), ToGUInt64(a.nPixelOffset))
             ELSE 0)

\* std::abs(i) of an int: the absolute value of INT_MIN is no int, the
\* outcome is INT_MIN itself or the value a wider operation gives
StdAbs(i, ub) == IF i = SIZE_INT_MIN /\ ub = "wrap" THEN SIZE_INT_MIN ELSE Abs(i)

\* nLineSize, a GIntBig
ScanlineSize(a, ub) == StdAbs(a.nPixelOffset, ub) * (a.nXSize - 1) + a.nDTSize

\* the line buffers of the bands need too much memory
TooMuchMemory(a, ub) ==
    /\ a.nBands > 0
    /\ ScanlineSize(a, ub) > (SIZE_INT_MAX \div 4) \div a.nBands

\* RAWDatasetCheckMemoryUsage(nXSize, ..., fp) with its arguments in a: ok is
\* the value returned, told whether the size of the file was asked for
RAWDatasetCheckMemoryUsage(a, fp, ds) ==
    IF CheckFileSize(a, ds.checkFileSize) /\ ExpectedFileSize(a) = Overflow
    THEN [ok |-> FALSE, error |-> "Image file is too small", told |-> FALSE]
    ELSE IF CheckFileSize(a, ds.checkFileSize)
            /\ fp.size < ExpectedFileSize(a) \div 2
    THEN [ok |-> FALSE, error |-> "Image file is too small", told |-> TRUE]
    ELSE IF TooMuchMemory(a, ds.ub)
    THEN [ok |-> FALSE, error |-> "Too much memory needed",
          told |-> CheckFileSize(a, ds.checkFileSize)]
    ELSE [ok |-> TRUE, error |-> "-", told |-> CheckFileSize(a, ds.checkFileSize)]

(***************************************************************************)
(* GetVirtualMemAuto().  The environment of a call is env:                 *)
(* [eRWFlag, impl, fd, avail, sizeBits, mapOk, flushOk]; impl is the value *)
(* of USE_DEFAULT_IMPLEMENTATION in papszOptions ("AUTO" when it is not    *)
(* there), fd whether the file has a native descriptor, avail the answer   *)
(* of CPLIsVirtualMemFileMapAvailable(), sizeBits the width of size_t,     *)
(* mapOk whether CPLVirtualMemFileMapNew succeeds.  The result names what  *)
(* is returned (ret: "own" the band's mapping, "default" what              *)
(* GDALRasterBand::GetVirtualMemAuto returns, "null"), the calls made in   *)
(* their order, and the mapping: its offset, size, access mode and the     *)
(* file as it was when the mapping was made.                               *)
(***************************************************************************)
NoView == [off |-> 0, size |-> 0, mode |-> "-", mapped |-> <<>>,
           nPixelSpace |-> 0, nLineSpace |-> 0]

\* nSize: the span of the image, in vsi_l_offset
VirtualMemSize(b, ub) ==
    AddOff(AddOff(MulOff(ToOff(b.nRasterYSize - 1), ToOff(b.nLineOffset)),
                  ToOff(IntResult((b.nRasterXSize - 1) * b.nPixelOffset, ub))),
           GDALGetDataTypeSizeBytes(b.eDataType))

\* static_cast<size_t>(nSize) != nSize
NotInSizeT(nSize, sizeBits) == nSize % Pow2(sizeBits) # nSize

\* the test with the sign of the line stride left out
UsesDefaultAnyLineStride(b, ub, env) ==
    \/ ~env.fd
    \/ ~env.avail
    \/ (b.eDataType # "GDT_Byte" /\ ~b.bNativeOrder)
    \/ NotInSizeT(VirtualMemSize(b, ub), env.sizeBits)
    \/ b.nPixelOffset < 0
    \/ EQUAL(env.impl, "YES") \/ EQUAL(env.impl, "ON")
    \/ EQUAL(env.impl, "1") \/ EQUAL(env.impl, "TRUE")

\* the test that sends the call to GDALRasterBand::GetVirtualMemAuto
UsesDefault(b, ub, env) ==
    \/ ~env.fd
    \/ ~env.avail
    \/ (b.eDataType # "GDT_Byte" /\ ~b.bNativeOrder)
    \/ NotInSizeT(VirtualMemSize(b, ub), env.sizeBits)
    \/ b.nPixelOffset < 0
    \/ b.nLineOffset < 0
    \/ EQUAL(env.impl, "YES") \/ EQUAL(env.impl, "ON")
    \/ EQUAL(env.impl, "1") \/ EQUAL(env.impl, "TRUE")

\* the default implementation is refused by the caller
RefusesDefault(env) ==
    \/ EQUAL(env.impl, "NO") \/ EQUAL(env.impl, "OFF")
    \/ EQUAL(env.impl, "0") \/ EQUAL(env.impl, "FALSE")

GetVirtualMemAuto(b, ds, s, io, cache, env) ==
    IF UsesDefault(b, ds.ub, env)
    THEN [ret |-> "default", s |-> s, io |-> io, cache |-> cache,
          calls |-> <<"GDALRasterBand::GetVirtualMemAuto">>, view |-> NoView]
    ELSE Only({
        IF env.mapOk
        THEN [ret |-> "own", s |-> f.s, io |-> f.io, cache |-> EmptyCache(b),
              calls |-> <<"FlushCache", "CPLVirtualMemFileMapNew">>,
              view |-> [off |-> b.nImgOffset, size |-> VirtualMemSize(b, ds.ub),
                        mode |-> IF env.eRWFlag = "GF_Write"
                                 THEN "VIRTUALMEM_READWRITE"
                                 ELSE "VIRTUALMEM_READONLY",
                        mapped |-> f.io.file,
                        nPixelSpace |-> b.nPixelOffset,
                        nLineSpace |-> b.nLineOffset]]
        ELSE IF RefusesDefault(env)
        THEN [ret |-> "null", s |-> f.s, io |-> f.io, cache |-> EmptyCache(b),
              calls |-> <<"FlushCache", "CPLVirtualMemFileMapNew">>,
              view |-> NoView]
        ELSE [ret |-> "default", s |-> f.s, io |-> f.io, cache |-> EmptyCache(b),
              calls |-> <<"FlushCache", "CPLVirtualMemFileMapNew",
                          "GDALRasterBand::GetVirtualMemAuto">>,
              view |-> NoView]
        : f \in {FlushCache(b, ds, s, io, cache, env.flushOk)} })

(***************************************************************************)
(* State.                                                                  *)
(***************************************************************************)
VARIABLES
    band,             \* the band descriptor (fixed by the constructor)
    ds,               \* the dataset and its environment: eAccess, ENVI
                      \* metadata, GDAL_ONE_BIG_READ, device capacity, the
                      \* outcome ub of a signed overflow, whether malloc(0)
                      \* returns null
    pLineBuffer,      \* the bytes of the line buffer (<<>> when null)
    nLoadedScanline,
    bDirty,
    file,             \* the bytes of the file behind fpRawL
    blockCache,       \* dirty blocks of the external block cache
    otherBands,       \* the bands of the dataset after this one: for each
                      \* whether it is a RawRasterBand (raw), its descriptor
                      \* b, its line buffer, loaded line and dirty flag s
    last,             \* the last operation: arguments, result, I/O calls made
    prev              \* summary of the operation before it

vars == <<band, ds, pLineBuffer, nLoadedScanline, bDirty, file, blockCache,
          otherBands, last, prev>>

S == [buf |-> pLineBuffer, loaded |-> nLoadedScanline, dirty |-> bDirty]

\* Source rows a caller writes, and the bytes a file starts with: all
\* distinct, so that a moved, swapped or stale byte is visible.
Pattern(p, y, n) == [i \in 1..n |-> 64 * p + 16 * y + i]
Orig(n) == [i \in 1..n |-> (200 + i) % 256]
Patterns == {1}

RowBytes(b) == b.nBlockXSize * GDALGetDataTypeSizeBytes(b.eDataType)

NoOp ==
    [op |-> "none", rw |-> "-", y |-> -1, n |-> 0, pat |-> 0, direct |-> FALSE,
     err |-> "CE_None", out |-> <<>>,
     seeks |-> 0, reads |-> 0, writes |-> 0, flushes |-> 0,
     progress |-> <<>>, cancelAt |-> 0, env |-> <<>>, view |-> <<>>,
     nBand |-> 1,
     kept |-> TRUE, cacheErr |-> "CE_None", wasDirty |-> FALSE,
     flushOk |-> TRUE, off |-> 0, x |-> 0, xn |-> 0, alg |-> "-",
     nBufXSize |-> 0, nBufYSize |-> 0, panBandMap |-> <<>>, nBandSpace |-> 0,
     calls |-> <<>>, delegated |-> FALSE, ret |-> "-",
     caller |-> <<>>, arg |-> <<>>]

Summary(l) == [op |-> l.op, rw |-> l.rw, y |-> l.y, n |-> l.n, pat |-> l.pat,
               direct |-> l.direct, err |-> l.err, x |-> l.x, xn |-> l.xn]

\* The record of an operation that returned r
Done(op, rw, y, n, pat, r, out) ==
    [NoOp EXCEPT !.op = op, !.rw = rw, !.y = y, !.n = n, !.pat = pat,
                 !.err = r.err, !.out = out,
                 !.seeks = r.io.seeks, !.reads = r.io.reads,
                 !.writes = r.io.writes, !.flushes = r.io.flushes,
                 !.progress = r.io.progress,
                 !.kept = (r.s = S /\ r.io.file = file)]

Writable == ~IsReadOnly(band, ds)

(***************************************************************************)
(* Actions.  fail is the set of ordinals of the seeks that fail during the *)
(* operation; flushOk the outcome of VSIFFlushL.                           *)
(***************************************************************************)
Apply(r) ==
    /\ pLineBuffer' = r.s.buf
    /\ nLoadedScanline' = r.s.loaded
    /\ bDirty' = r.s.dirty
    /\ file' = r.io.file

\* the block cache misses on line y and calls IReadBlock
ReadBlock(y, fail) ==
    /\ y \in Lines(band)
    /\ blockCache[y] = <<>>
    /\ \E r \in {IReadBlock(band, ds, S, IoStart(file, ds.cap, fail), y)} :
          /\ Apply(r)
          /\ last' = [Done("IReadBlock", "R", y, 1, 0, r, r.out)
                         EXCEPT !.off = LineStart(band, y)]
    /\ prev' = Summary(last)
    /\ UNCHANGED <<band, ds, blockCache, otherBands>>

\* the block cache writes out the dirty block of line y (an eviction)
WriteBlock(y, p, fail) ==
    /\ y \in Lines(band)
    /\ Writable
    /\ blockCache[y] = <<>>
    /\ \E r \in {IWriteBlock(band, ds, S, IoStart(file, ds.cap, fail), y,
                               Pattern(p, y, RowBytes(band)))} :
          /\ Apply(r)
          /\ last' = [Done("IWriteBlock", "W", y, 1, p, r, <<>>)
                         EXCEPT !.off = WriteStart(band, y)]
    /\ prev' = Summary(last)
    /\ UNCHANGED <<band, ds, blockCache, otherBands>>

\* a full line written through the block cache: the block becomes dirty
CachePut(y, p) ==
    /\ y \in Lines(band)
    /\ Writable
    /\ blockCache' = [blockCache EXCEPT ![y] = Pattern(p, y, RowBytes(band))]
    /\ last' = [NoOp EXCEPT !.op = "CachePut", !.rw = "W", !.y = y, !.n = 1,
                            !.pat = p]
    /\ prev' = Summary(last)
    /\ UNCHANGED <<band, ds, pLineBuffer, nLoadedScanline, bDirty, file, otherBands>>

Flush(fail, flushOk) ==
    /\ \E r \in {FlushCache(band, ds, S, IoStart(file, ds.cap, fail),
                              blockCache, flushOk)} :
          /\ Apply(r)
          /\ last' = [Done("FlushCache", "-", -1, 0, 0, r, <<>>)
                         EXCEPT !.cacheErr = r.cacheErr, !.wasDirty = r.wasDirty,
                                !.flushOk = flushOk \/ r.io.flushes = 0,
                                !.kept = (r.s = S /\ r.io.file = file
                                          /\ blockCache = EmptyCache(band))]
    /\ blockCache' = EmptyCache(band)
    /\ prev' = Summary(last)
    /\ UNCHANGED <<band, ds, otherBands>>

\* the bytes of a write request: byte k of the pixel it puts at (x, y)
IoValue(p, x, y, k) == 256 * p + 32 * y + 4 * x + (k - 1)

\* pData of a write of pattern p to the window at (nXOff, nYOff), nXSize wide
IoPattern(p, nXOff, nYOff, nXSize, nYSize, nDTSize) ==
    [i \in 1 .. (nXSize * nYSize * nDTSize) |->
        LET q == (i - 1) \div nDTSize
        IN IoValue(p, nXOff + (q % nXSize), nYOff + (q \div nXSize),
                   ((i - 1) % nDTSize) + 1)]

\* pData of a read before the call
CallerBuffer(n) == [i \in 1..n |-> 198]

\* a request for a window, buffer as large as the window and packed
Request(eRWFlag, win, p) ==
    LET nDTSize == GDALGetDataTypeSizeBytes(band.eDataType)
    IN [eRWFlag |-> eRWFlag,
        nXOff |-> win.x, nYOff |-> win.y, nXSize |-> win.xn, nYSize |-> win.yn,
        nBufXSize |-> win.xn, nBufYSize |-> win.yn,
        eBufType |-> band.eDataType,
        nPixelSpace |-> nDTSize, nLineSpace |-> nDTSize * win.xn,
        eResampleAlg |-> "GRIORA_NearestNeighbour",
        cancelAt |-> 0, pat |-> p,
        data |-> IF eRWFlag = "GF_Write"
                 THEN IoPattern(p, win.x, win.y, win.xn, win.yn, nDTSize)
                 ELSE CallerBuffer(win.xn * win.yn * nDTSize)]

\* GDALRasterBand::RasterIO passes a valid window on to IRasterIO, a write
\* only on a dataset opened for update
RasterIO(req, fail) ==
    /\ req.eRWFlag = "GF_Write" => Writable
    /\ \E r \in {IRasterIO(band, ds, S, IoStart(file, ds.cap, fail),
                             blockCache, req)} :
          /\ Apply(r)
          /\ blockCache' = r.cache
          /\ last' = [Done("IRasterIO", IF req.eRWFlag = "GF_Read" THEN "R" ELSE "W",
                           req.nYOff, req.nYSize, req.pat, r, r.out)
                         EXCEPT !.direct = r.direct, !.x = req.nXOff,
                                !.xn = req.nXSize, !.cancelAt = req.cancelAt,
                                !.kept = (r.s = S /\ r.io.file = file
                                          /\ r.cache = blockCache)]
    /\ prev' = Summary(last)
    /\ UNCHANGED <<band, ds, otherBands>>

\* the bands of the dataset: this band and the others
Bands == <<[raw |-> TRUE, b |-> band, s |-> S, cache |-> blockCache]>> \o otherBands

\* the bytes of a dataset write: those of IoPattern for band iBand of the
\* request, 64 more from band to band
DatasetPattern(p, win, nDTSize, nBandCount) ==
    [i \in 1 .. (nBandCount * win.xn * win.yn * nDTSize) |->
        LET n == win.xn * win.yn * nDTSize
        IN 64 * ((i - 1) \div n)
           + IoPattern(p, win.x, win.y, win.xn, win.yn, nDTSize)[((i - 1) % n) + 1]]

\* a dataset request for a window and the bands of panBandMap: the buffer
\* holds nBufYSize lines of nBufXSize pixels, packed, band after band
DatasetRequest(eRWFlag, win, nBufXSize, nBufYSize, panBandMap, p) ==
    LET nDTSize == GDALGetDataTypeSizeBytes(band.eDataType)
        shown == [win EXCEPT !.xn = nBufXSize, !.yn = nBufYSize]
    IN [eRWFlag |-> eRWFlag,
        nXOff |-> win.x, nYOff |-> win.y, nXSize |-> win.xn, nYSize |-> win.yn,
        nBufXSize |-> nBufXSize, nBufYSize |-> nBufYSize,
        eBufType |-> band.eDataType,
        nPixelSpace |-> nDTSize, nLineSpace |-> nDTSize * nBufXSize,
        eResampleAlg |-> "GRIORA_NearestNeighbour",
        cancelAt |-> 0, pat |-> p,
        pfnProgress |-> "GDALDummyProgress", pProgressData |-> "NULL",
        nBandCount |-> Len(panBandMap), panBandMap |-> panBandMap,
        nBandSpace |-> nDTSize * nBufXSize * nBufYSize,
        data |-> IF eRWFlag = "GF_Write"
                 THEN DatasetPattern(p, shown, nDTSize, Len(panBandMap))
                 ELSE CallerBuffer(Len(panBandMap) * nDTSize * nBufXSize * nBufYSize)]

\* GDALDataset::RasterIO passes a valid request on to RawDataset::IRasterIO
DatasetRasterIO(req) ==
    /\ req.eRWFlag = "GF_Write" => Writable
    /\ \E r \in {RawDatasetIRasterIO(Bands, ds, IoStart(file, ds.cap, {}), req)} :
          /\ pLineBuffer' = r.bands[1].s.buf
          /\ nLoadedScanline' = r.bands[1].s.loaded
          /\ bDirty' = r.bands[1].s.dirty
          /\ blockCache' = r.bands[1].cache
          /\ otherBands' = Tail(r.bands)
          /\ file' = r.io.file
          /\ last' = [NoOp EXCEPT
                        !.op = "RawDataset::IRasterIO",
                        !.rw = IF req.eRWFlag = "GF_Read" THEN "R" ELSE "W",
                        !.y = req.nYOff, !.n = req.nYSize,
                        !.x = req.nXOff, !.xn = req.nXSize,
                        !.nBufXSize = req.nBufXSize, !.nBufYSize = req.nBufYSize,
                        !.alg = req.eResampleAlg, !.pat = req.pat,
                        !.panBandMap = req.panBandMap,
                        !.nBandSpace = req.nBandSpace,
                        !.err = r.err, !.out = r.data,
                        !.seeks = r.io.seeks, !.reads = r.io.reads,
                        !.writes = r.io.writes,
                        !.calls = r.calls, !.delegated = r.delegated,
                        !.caller = BandExtraArg(req, FALSE, 0), !.arg = r.arg,
                        !.kept = (r.bands = Bands /\ r.io.file = file)]
    /\ prev' = Summary(last)
    /\ UNCHANGED <<band, ds>>

\* a call of GetRawBinaryLayout(sLayout)
GetLayout ==
    /\ last' = [NoOp EXCEPT !.op = "GetRawBinaryLayout",
                            !.ret = GetRawBinaryLayout(Bands, band.nRasterXSize,
                                                       band.nRasterYSize, ds)]
    /\ prev' = Summary(last)
    /\ UNCHANGED <<band, ds, pLineBuffer, nLoadedScanline, bDirty, file,
                   blockCache, otherBands>>

\* IReadBlock of line y on band i + 1 of the dataset
OtherReadBlock(i, y) ==
    /\ i \in 1..Len(otherBands) /\ otherBands[i].raw
    /\ y \in Lines(otherBands[i].b)
    /\ \E r \in {IReadBlock(otherBands[i].b, ds, otherBands[i].s,
                              IoStart(file, ds.cap, {}), y)} :
          /\ otherBands' = [otherBands EXCEPT ![i].s = r.s]
          /\ file' = r.io.file
          /\ last' = [Done("IReadBlock", "R", y, 1, 0, r, r.out)
                         EXCEPT !.nBand = i + 1,
                                !.kept = (r.s = otherBands[i].s /\ r.io.file = file)]
    /\ prev' = Summary(last)
    /\ UNCHANGED <<band, ds, pLineBuffer, nLoadedScanline, bDirty, blockCache>>

\* IWriteBlock of line y on band i + 1 of the dataset, with its own pattern
OtherWriteBlock(i, y, p) ==
    /\ i \in 1..Len(otherBands) /\ otherBands[i].raw
    /\ y \in Lines(otherBands[i].b)
    /\ Writable
    /\ \E r \in {IWriteBlock(otherBands[i].b, ds, otherBands[i].s,
                               IoStart(file, ds.cap, {}), y,
                               Pattern(p + i, y, RowBytes(otherBands[i].b)))} :
          /\ otherBands' = [otherBands EXCEPT ![i].s = r.s]
          /\ file' = r.io.file
          /\ last' = [Done("IWriteBlock", "W", y, 1, p + i, r, <<>>)
                         EXCEPT !.nBand = i + 1,
                                !.kept = (r.s = otherBands[i].s /\ r.io.file = file)]
    /\ prev' = Summary(last)
    /\ UNCHANGED <<band, ds, pLineBuffer, nLoadedScanline, bDirty, blockCache>>

\* a call of AccessBlock(nBlockOff, nBlockSize, pData) during which the
\* seeks of fail fail
BlockAccess(nBlockOff, nBlockSize, fail) ==
    /\ \E r \in {AccessBlock(band, IoStart(file, ds.cap, fail), nBlockOff,
                               nBlockSize, CallerBuffer(nBlockSize))} :
          last' = [NoOp EXCEPT !.op = "AccessBlock", !.rw = "R",
                               !.off = nBlockOff, !.n = nBlockSize,
                               !.err = r.err, !.out = r.data,
                               !.seeks = r.io.seeks, !.reads = r.io.reads]
    /\ prev' = Summary(last)
    /\ UNCHANGED <<band, ds, pLineBuffer, nLoadedScanline, bDirty, file,
                   blockCache, otherBands>>

\* the band is destroyed
Destroy(fail, flushOk, closeOk) ==
    /\ last.op # "~RawRasterBand"
    /\ \E r \in {Destructor(band, ds, S, IoStart(file, ds.cap, fail),
                              blockCache, flushOk, closeOk)} :
          /\ Apply(r)
          /\ last' = [Done("~RawRasterBand", "-", -1, 0, 0, r, <<>>)
                         EXCEPT !.calls = r.calls,
                                !.ret = IF r.closed THEN "closed" ELSE "open",
                                !.cacheErr = r.cacheErr, !.wasDirty = r.wasDirty,
                                !.flushOk = flushOk]
    /\ blockCache' = EmptyCache(band)
    /\ prev' = Summary(last)
    /\ UNCHANGED <<band, ds, otherBands>>

\* a call of GetVirtualMemAuto() in the environment env
VirtualMem(env) ==
    /\ env.eRWFlag = "GF_Write" => Writable
    /\ \E r \in {GetVirtualMemAuto(band, ds, S, IoStart(file, ds.cap, {}),
                                     blockCache, env)} :
          /\ pLineBuffer' = r.s.buf
          /\ nLoadedScanline' = r.s.loaded
          /\ bDirty' = r.s.dirty
          /\ file' = r.io.file
          /\ blockCache' = r.cache
          /\ last' = [NoOp EXCEPT !.op = "GetVirtualMemAuto", !.ret = r.ret,
                                  !.calls = r.calls, !.view = r.view,
                                  !.env = env,
                                  !.writes = r.io.writes,
                                  !.flushes = r.io.flushes]
    /\ prev' = Summary(last)
    /\ UNCHANGED <<band, ds, otherBands>>

\* a call of RAWDatasetCheckMemoryUsage() before the dataset is opened
CheckMemoryUsage(a, fp) ==
    /\ last' = [NoOp EXCEPT !.op = "RAWDatasetCheckMemoryUsage",
                            !.ret = [a |-> a, fp |-> fp,
                                     r |-> RAWDatasetCheckMemoryUsage(a, fp, ds)]]
    /\ prev' = Summary(last)
    /\ UNCHANGED <<band, ds, pLineBuffer, nLoadedScanline, bDirty, file,
                   blockCache, otherBands>>

(***************************************************************************)
(* Initial states: bands whose pixels and lines are laid out with every    *)
(* sign and size of stride, over a file that holds the whole image or only *)
(* its first line, on a device that holds the whole image or lacks its     *)
(* last byte.                                                              *)
(***************************************************************************)
PixelStrides(dt) ==
    LET n == GDALGetDataTypeSizeBytes(dt)
    IN {n, -n, n + 1, -(n + 1), n - 1}

LineStrides(dt, ps) ==
    LET n == Abs(ps) * (ImgWidth - 1) + GDALGetDataTypeSizeBytes(dt)
    IN {n, -n, n + 1}

\* the smallest image offset the strides allow
MinImgOffset(ps, ls) ==
    (IF ls < 0 THEN (-ls) * (ImgHeight - 1) ELSE 0)
    + (IF ps < 0 THEN (-ps) * (ImgWidth - 1) ELSE 0)

\* one past the last byte of the image
ImageEnd(dt, ps, ls) ==
    MinImgOffset(ps, ls)
    + (IF ls > 0 THEN ls * (ImgHeight - 1) ELSE 0)
    + (IF ps > 0 THEN ps * (ImgWidth - 1) ELSE 0)
    + GDALGetDataTypeSizeBytes(dt)

TypeOrders ==
    {<<"GDT_Byte", TRUE>>, <<"GDT_Int16", TRUE>>, <<"GDT_Int16", FALSE>>,
     <<"GDT_CInt16", FALSE>>}

Accesses ==
    {[eAccess |-> "GA_ReadOnly", ENVI |-> FALSE],
     [eAccess |-> "GA_ReadOnly", ENVI |-> TRUE],
     [eAccess |-> "GA_Update", ENVI |-> FALSE]}

\* the dataset and its environment: no INTERLEAVE metadata, RAW_CHECK_FILE_SIZE
\* not set, a little-endian host
Dataset(acc, obr, cap) ==
    [eAccess |-> acc.eAccess, ENVI |-> acc.ENVI,
     oneBigRead |-> obr, cap |-> cap,
     ub |-> "exact", zeroAllocNull |-> FALSE,
     interleave |-> "unset", checkFileSize |-> "unset", CPL_LSB |-> TRUE]

InitState(b, d, others, len) ==
    /\ band = b
    /\ ds = d
    /\ pLineBuffer = IF b.bufNull THEN <<>> ELSE Uninit(b.nLineSize)
    /\ nLoadedScanline = -1
    /\ bDirty = FALSE
    /\ file = Orig(len)
    /\ blockCache = EmptyCache(b)
    /\ otherBands = others
    /\ last = NoOp
    /\ prev = Summary(NoOp)

\* a dataset of one band
InitWith(b, acc, obr, cap, len) == InitState(b, Dataset(acc, obr, cap), <<>>, len)

\* the band and file of one layout: the image starts at the smallest offset
\* its strides allow; a short device lacks the image's last byte and its
\* file holds one line and one byte more
Layout(to, ps, ls, acc, obr, short) ==
    LET end == ImageEnd(to[1], ps, ls)
        b == RawRasterBand(CtorArgs(TRUE, MinImgOffset(ps, ls), ps, ls,
                                    to[1], to[2], ImgWidth, ImgHeight),
                           "exact", TRUE)
    IN InitWith(b, acc, obr,
                IF short THEN end - 1 ELSE end,
                IF short THEN b.nLineSize + 1 ELSE end)

(***************************************************************************)
(* Spec: the block path (IReadBlock, IWriteBlock) over a file whose seeks  *)
(* succeed.  SpecFault: the same with failing seeks.                       *)
(***************************************************************************)
Init ==
    \E to \in TypeOrders, acc \in Accesses, short \in BOOLEAN :
    \E ps \in PixelStrides(to[1]) :
    \E ls \in LineStrides(to[1], ps) :
       Layout(to, ps, ls, acc, "unset", short)

Next ==
    \/ \E y \in Lines(band) : ReadBlock(y, {})
    \/ \E y \in Lines(band), p \in Patterns : WriteBlock(y, p, {})

Spec == Init /\ [][Next]_vars

\* the seeks that fail during one operation; IReadBlock seeks once
SeekFaults == {{}, {1}, {2}, {1, 2}}
FirstSeekFaults == {{}, {1}}

NextFault ==
    \/ \E y \in Lines(band), f \in FirstSeekFaults : ReadBlock(y, f)
    \/ \E y \in Lines(band), p \in Patterns, f \in SeekFaults : WriteBlock(y, p, f)

SpecFault == Init /\ [][NextFault]_vars

(***************************************************************************)
(* SpecFlush: the block path, the block cache and FlushCache; during a     *)
(* flush seeks and VSIFFlushL may fail.                                    *)
(***************************************************************************)
FlushTypeOrders == {<<"GDT_Byte", TRUE>>, <<"GDT_Int16", FALSE>>}

FlushAccesses ==
    {[eAccess |-> "GA_ReadOnly", ENVI |-> FALSE],
     [eAccess |-> "GA_Update", ENVI |-> FALSE]}

InitFlush ==
    \E to \in FlushTypeOrders, acc \in FlushAccesses, short \in BOOLEAN :
    \E ps \in {GDALGetDataTypeSizeBytes(to[1]), GDALGetDataTypeSizeBytes(to[1]) + 1} :
    \E ls \in {Abs(ps) * (ImgWidth - 1) + GDALGetDataTypeSizeBytes(to[1])} :
       Layout(to, ps, ls, acc, "unset", short)

NextFlush ==
    \/ \E y \in Lines(band) : ReadBlock(y, {})
    \/ \E y \in Lines(band), p \in Patterns : WriteBlock(y, p, {})
    \/ \E y \in Lines(band), p \in Patterns : CachePut(y, p)
    \/ \E f \in SeekFaults, flushOk \in BOOLEAN : Flush(f, flushOk)

SpecFlush == InitFlush /\ [][NextFlush]_vars

(***************************************************************************)
(* SpecCtor: both constructors over offsets, strides and dimensions at and *)
(* around the limits of their types, followed by the first block operation *)
(* on the new band.  The device has room for DeviceSize bytes only.        *)
(***************************************************************************)
ImgOffsets == {0, 1, 4, GINTBIG_MAX - 2, GINTBIG_MAX, GINTBIG_MAX + 1, OFF_MAX}
Strides == {INT_MIN, -2, 0, 1, INT_MAX}
Dimensions == {-1, 0, 1, 2, INT_MAX}
DeviceSize == 8

\* the outcomes of the signed overflows the arguments can cause
Outcomes(ps, ls) == IF ps = INT_MIN \/ ls = INT_MIN THEN UBOutcomes ELSE {"exact"}

InitCtor ==
    \E poDS \in BOOLEAN, img \in ImgOffsets, ps \in Strides, ls \in Strides :
    \E dt \in {"GDT_Byte"}, nXSize \in Dimensions, nYSize \in Dimensions :
    \E ub \in Outcomes(ps, ls) :
       InitWith(RawRasterBand(CtorArgs(poDS, img, ps, ls, dt, TRUE, nXSize, nYSize),
                              ub, TRUE),
                [eAccess |-> "GA_Update", ENVI |-> FALSE], "unset",
                DeviceSize, DeviceSize)

\* the first and the last line of the band
EdgeLines(b) == {0, b.nRasterYSize - 1} \cap Lines(b)

NextCtor ==
    \/ \E y \in EdgeLines(band) : last.op = "none" /\ ReadBlock(y, {})
    \/ \E y \in EdgeLines(band), p \in Patterns :
          last.op = "none" /\ WriteBlock(y, p, {})

SpecCtor == InitCtor /\ [][NextCtor]_vars

(***************************************************************************)
(* SpecIO: windowed I/O, block reads and block writes, with                *)
(* GDAL_ONE_BIG_READ set to YES or unset, on bands that constructed and on *)
(* bands that did not: the inert bands have a negative line stride that    *)
(* the image offset 0 does not allow.  The lines of a band follow each     *)
(* other with or without a gap, top-down or bottom-up.  The device has     *)
(* room for the image and the pixel gap after its last pixel.              *)
(***************************************************************************)
\* the whole image, its last line, its last column
Windows(b) ==
    {[x |-> 0, y |-> 0, xn |-> b.nRasterXSize, yn |-> b.nRasterYSize],
     [x |-> 0, y |-> b.nRasterYSize - 1, xn |-> b.nRasterXSize, yn |-> 1],
     [x |-> b.nRasterXSize - 1, y |-> 0, xn |-> 1, yn |-> b.nRasterYSize]}

\* the line strides of SpecIO: lines packed one after the other, lines with
\* a byte between them, bottom-up lines, and the negative stride of an inert
\* band
IOLayouts == {"packed", "gap", "bottom-up", "inert"}

InitIO ==
    \E to \in FlushTypeOrders, lay \in IOLayouts, obr \in {"YES", "unset"} :
    \E ps \in {GDALGetDataTypeSizeBytes(to[1]), GDALGetDataTypeSizeBytes(to[1]) + 1} :
       LET n == ps * (ImgWidth - 1) + GDALGetDataTypeSizeBytes(to[1])
           ls == IF lay = "packed" THEN n ELSE IF lay = "gap" THEN n + 1 ELSE -n
           img == IF lay = "bottom-up" THEN n * (ImgHeight - 1) ELSE 0
           end == Abs(ls) * (ImgHeight - 1) + n
           b == RawRasterBand(CtorArgs(TRUE, img, ps, ls,
                                       to[1], to[2], ImgWidth, ImgHeight),
                              "exact", TRUE)
       IN InitWith(b, [eAccess |-> "GA_Update", ENVI |-> FALSE], obr,
                   end + 2, end)

NextIO ==
    \/ \E y \in Lines(band) : ReadBlock(y, {})
    \/ \E y \in Lines(band), p \in Patterns : WriteBlock(y, p, {})
    \/ \E rw \in {"GF_Read", "GF_Write"}, win \in Windows(band), p \in Patterns :
          \E req \in {Request(rw, win, p)} : RasterIO(req, {})

SpecIO == InitIO /\ [][NextIO]_vars

(***************************************************************************)
(* SpecCancel: windowed I/O with a progress callback, on bands for which   *)
(* the gate is open (GDAL_ONE_BIG_READ is YES, the pixel stride positive). *)
(* The callback returns FALSE at its first or its second call, or never;   *)
(* or there is no callback.                                                *)
(***************************************************************************)
CancelLayouts == {"packed", "gap", "bottom-up"}

InitCancel ==
    \E to \in FlushTypeOrders, lay \in CancelLayouts :
    \E ps \in {GDALGetDataTypeSizeBytes(to[1]), GDALGetDataTypeSizeBytes(to[1]) + 1} :
       LET n == ps * (ImgWidth - 1) + GDALGetDataTypeSizeBytes(to[1])
           ls == IF lay = "packed" THEN n ELSE IF lay = "gap" THEN n + 1 ELSE -n
           img == IF lay = "bottom-up" THEN n * (ImgHeight - 1) ELSE 0
           end == Abs(ls) * (ImgHeight - 1) + n
           b == RawRasterBand(CtorArgs(TRUE, img, ps, ls,
                                       to[1], to[2], ImgWidth, ImgHeight),
                              "exact", TRUE)
       IN InitWith(b, [eAccess |-> "GA_Update", ENVI |-> FALSE], "YES",
                   end + 2, end)

\* a request whose callback returns FALSE at call c
CancellableRequest(eRWFlag, win, p, c) ==
    [Request(eRWFlag, win, p) EXCEPT !.cancelAt = c]

\* behaviours of two operations
NextCancel ==
    \/ /\ prev.op = "none"
       /\ \E y \in Lines(band) : ReadBlock(y, {})
    \/ /\ prev.op = "none"
       /\ \E rw \in {"GF_Read", "GF_Write"}, win \in Windows(band), p \in Patterns,
             c \in 0 .. (ImgHeight + 1) :
             \E req \in {CancellableRequest(rw, win, p, c)} : RasterIO(req, {})

SpecCancel == InitCancel /\ [][NextCancel]_vars

(***************************************************************************)
(* SpecDirty: block writes, windowed writes and flushes on the bands of    *)
(* SpecCancel, with seeks that fail: a write of two rows whose second seek *)
(* fails has written its first row.                                        *)
(***************************************************************************)
\* behaviours of two operations
NextDirty ==
    \/ /\ prev.op = "none"
       /\ \E y \in Lines(band), p \in Patterns, f \in FirstSeekFaults :
             WriteBlock(y, p, f)
    \/ /\ prev.op = "none"
       /\ \E win \in Windows(band), p \in Patterns, f \in SeekFaults :
             \E req \in {Request("GF_Write", win, p)} : RasterIO(req, f)
    \/ /\ prev.op = "none"
       /\ \E flushOk \in BOOLEAN : Flush({}, flushOk)

SpecDirty == InitCancel /\ [][NextDirty]_vars

(***************************************************************************)
(* SpecBlock: one call of AccessBlock on a band of either byte order, for  *)
(* a block of one to four pixels anywhere in a file that holds the whole   *)
(* image or its first line and a byte, with a seek that works or fails.    *)
(***************************************************************************)
InitBlock ==
    \E to \in TypeOrders, short \in BOOLEAN :
    \E ps \in {GDALGetDataTypeSizeBytes(to[1]), GDALGetDataTypeSizeBytes(to[1]) + 1} :
       Layout(to, ps, ps * (ImgWidth - 1) + GDALGetDataTypeSizeBytes(to[1]),
              [eAccess |-> "GA_Update", ENVI |-> FALSE], "YES", short)

NextBlock ==
    /\ last.op = "none"
    /\ \E nBlockOff \in 0 .. Len(file), count \in 1 .. (ImgWidth * ImgHeight),
          fail \in FirstSeekFaults :
          BlockAccess(nBlockOff, count * band.nPixelOffset, fail)

SpecBlock == InitBlock /\ [][NextBlock]_vars

(***************************************************************************)
(* SpecTeardown: the destruction of a band that owns its file or does not, *)
(* fresh or after one or two block operations, with a seek that fails      *)
(* while the block cache is flushed, a file flush or a close that fails.   *)
(* Nothing is done with a band once it is destroyed.                       *)
(***************************************************************************)
InitTeardown ==
    \E to \in FlushTypeOrders, acc \in FlushAccesses, own \in BOOLEAN :
    \E ps \in {GDALGetDataTypeSizeBytes(to[1]), GDALGetDataTypeSizeBytes(to[1]) + 1} :
       LET n == ps * (ImgWidth - 1) + GDALGetDataTypeSizeBytes(to[1])
           b == RawRasterBand(OwnFP(CtorArgs(TRUE, 0, ps, n, to[1], to[2],
                                             ImgWidth, ImgHeight), own),
                              "exact", TRUE)
       IN InitWith(b, acc, "unset", n * ImgHeight, n * ImgHeight)

NextTeardown ==
    \/ /\ last.op # "~RawRasterBand" /\ prev.op = "none"
       /\ \E y \in Lines(band) : ReadBlock(y, {})
    \/ /\ last.op # "~RawRasterBand" /\ prev.op = "none"
       /\ \E y \in Lines(band), p \in Patterns : WriteBlock(y, p, {})
    \/ /\ last.op # "~RawRasterBand" /\ prev.op = "none"
       /\ \E y \in Lines(band), p \in Patterns : CachePut(y, p)
    \/ \E f \in FirstSeekFaults, flushOk \in BOOLEAN, closeOk \in BOOLEAN :
          Destroy(f, flushOk, closeOk)

SpecTeardown == InitTeardown /\ [][NextTeardown]_vars

(***************************************************************************)
(* SpecVMem: GetVirtualMemAuto on bands of either byte order, with strides *)
(* of either sign, after a line was put in the block cache or written to   *)
(* the file, or on a fresh band.  The bands are three lines high; with the *)
(* largest line stride the image does not fit a size_t as wide as an int.  *)
(***************************************************************************)
VMemHeight == 3
VMemTypeOrders ==
    {<<"GDT_Byte", TRUE>>, <<"GDT_Byte", FALSE>>,
     <<"GDT_Int16", TRUE>>, <<"GDT_Int16", FALSE>>}
VMemImpls == {"AUTO", "YES", "on", "1", "TRUE", "NO", "off"}

VMemEnvs ==
    [eRWFlag : {"GF_Read", "GF_Write"}, impl : VMemImpls,
     fd : BOOLEAN, avail : BOOLEAN, sizeBits : {IntBits, OffBits},
     mapOk : BOOLEAN, flushOk : {TRUE}]

InitVMem ==
    \E to \in VMemTypeOrders, sign \in {1, -1} :
    \E ls \in {ImgWidth * GDALGetDataTypeSizeBytes(to[1]),
                -ImgWidth * GDALGetDataTypeSizeBytes(to[1]), INT_MAX} :
       LET dt == GDALGetDataTypeSizeBytes(to[1])
           ps == sign * dt
           img == (IF ls < 0 THEN (-ls) * (VMemHeight - 1) ELSE 0)
                  + (IF ps < 0 THEN (-ps) * (ImgWidth - 1) ELSE 0)
           end == img + (IF ls > 0 THEN ls * (VMemHeight - 1) ELSE 0)
                      + (IF ps > 0 THEN ps * (ImgWidth - 1) ELSE 0) + dt
           b == RawRasterBand(CtorArgs(TRUE, img, ps, ls, to[1], to[2],
                                       ImgWidth, VMemHeight),
                              "exact", TRUE)
       IN InitWith(b, [eAccess |-> "GA_Update", ENVI |-> FALSE], "unset",
                   end, end)

\* behaviours of two operations, the second one GetVirtualMemAuto
NextVMem ==
    \/ /\ last.op = "none"
       /\ \E y \in Lines(band), p \in Patterns : CachePut(y, p)
    \/ /\ last.op = "none"
       /\ \E y \in Lines(band), p \in Patterns : WriteBlock(y, p, {})
    \/ /\ prev.op = "none"
       /\ \E env \in VMemEnvs : VirtualMem(env)

SpecVMem == InitVMem /\ [][NextVMem]_vars

(***************************************************************************)
(* SpecGate: the gate CanUseDirectIO on bands of the size its heuristic    *)
(* is about (a line of 50000 bytes and more) and on small ones, with       *)
(* either sign of the pixel stride, every value of GDAL_ONE_BIG_READ, with *)
(* and without resampling, and with lines in the block cache.  The gate    *)
(* computes no file offset: the bands are not scaled to IntBits.  The     *)
(* gate changes nothing: it is not called twice in a row.                  *)
(***************************************************************************)
\* the band Initialize() leaves for a GDT_Byte image of nXSize x nYSize
\* pixels, nPixelOffset bytes from pixel to pixel, lines packed
WideBand(nPixelOffset, nXSize, nYSize) ==
    [eDataType |-> "GDT_Byte", bNativeOrder |-> TRUE, poDS |-> TRUE,
     nPixelOffset |-> nPixelOffset,
     nLineOffset |-> Abs(nPixelOffset) * nXSize,
     nImgOffset |-> IF nPixelOffset < 0 THEN Abs(nPixelOffset) * (nXSize - 1) ELSE 0,
     nRasterXSize |-> nXSize, nRasterYSize |-> nYSize, nBlockXSize |-> nXSize,
     nLargestOffset |-> Abs(nPixelOffset) * nXSize * nYSize - Abs(nPixelOffset),
     nLineSize |-> Abs(nPixelOffset) * (nXSize - 1) + 1,
     pLineStart |-> IF nPixelOffset < 0 THEN Abs(nPixelOffset) * (nXSize - 1) ELSE 0,
     bufNull |-> FALSE, bOwnsFP |-> FALSE]

GateWidth == 6
GatePixelStrides == {-1, 1, 10000}
GateHeights == {2, 20}
ConfigValues == {"unset", "YES", "ON", "1", "NO", "OFF", "FALSE", "0"}
ResampleAlgs == {"GRIORA_NearestNeighbour", "GRIORA_Bilinear"}

\* windows at the left edge, 1 to 3 pixels wide, of the first or of all lines
GateWindows(b) ==
    {[x |-> 0, y |-> 0, xn |-> xn, yn |-> yn] :
        xn \in 1..3, yn \in {1, b.nRasterYSize}}

\* a call of CanUseDirectIO(nXOff, nYOff, nXSize, nYSize, eBufType, psExtraArg)
CheckDirectIO(req) ==
    /\ last' = [NoOp EXCEPT !.op = "CanUseDirectIO", !.rw = "R",
                            !.y = req.nYOff, !.n = req.nYSize,
                            !.x = req.nXOff, !.xn = req.nXSize,
                            !.alg = req.eResampleAlg,
                            !.direct = CanUseDirectIO(band, ds, blockCache, req)]
    /\ prev' = Summary(last)
    /\ UNCHANGED <<band, ds, pLineBuffer, nLoadedScanline, bDirty, file,
                   blockCache, otherBands>>

InitGate ==
    \E ps \in GatePixelStrides, h \in GateHeights, obr \in ConfigValues :
       InitWith(WideBand(ps, GateWidth, h),
                [eAccess |-> "GA_Update", ENVI |-> FALSE], obr, 0, 0)

NextGate ==
    \/ \E y \in {0, 1}, p \in Patterns : CachePut(y, p)
    \/ \E win \in GateWindows(band), alg \in ResampleAlgs :
          \E req \in {[Request("GF_Read", win, 0) EXCEPT !.eResampleAlg = alg]} :
             last.op # "CanUseDirectIO" /\ CheckDirectIO(req)

SpecGate == InitGate /\ [][NextGate]_vars

(***************************************************************************)
(* SpecHeuristic: the gate with GDAL_ONE_BIG_READ unset, on bands whose    *)
(* lines hold 5 and 3 pixel strides and a byte (50001 and 51001 bytes),    *)
(* and on bands with a short line or a negative pixel stride, for windows  *)
(* of 1 to 4 pixels, with none, one or two of the lines asked for in the   *)
(* block cache.                                                            *)
(***************************************************************************)
HeuristicWidth == 4
HeuristicShapes ==
    {<<-1, GateWidth>>, <<1, GateWidth>>, <<10000, GateWidth>>,
     <<17000, HeuristicWidth>>}
HeuristicWindows(b) ==
    {[x |-> 0, y |-> 0, xn |-> xn, yn |-> yn] :
        xn \in 1..4, yn \in {1, b.nRasterYSize}}

InitHeuristic ==
    \E shape \in HeuristicShapes, h \in GateHeights :
       InitWith(WideBand(shape[1], shape[2], h),
                [eAccess |-> "GA_Update", ENVI |-> FALSE], "unset", 0, 0)

NextHeuristic ==
    \/ \E y \in {0, 1}, p \in Patterns : CachePut(y, p)
    \/ \E win \in HeuristicWindows(band), alg \in ResampleAlgs :
          \E req \in {[Request("GF_Read", win, 0) EXCEPT !.eResampleAlg = alg]} :
             last.op # "CanUseDirectIO" /\ CheckDirectIO(req)

SpecHeuristic == InitHeuristic /\ [][NextHeuristic]_vars

(***************************************************************************)
(* SpecSafety: windowed I/O on bands whose pixel stride is zero, smaller   *)
(* than the data type, the size of the data type or a byte more, with      *)
(* GDAL_ONE_BIG_READ set to YES or unset.  The lines are packed, the       *)
(* device has room for the image.  malloc(0) returns a null pointer or a   *)
(* pointer to no bytes.                                                    *)
(***************************************************************************)
SafetyTypeOrders ==
    {<<"GDT_Byte", TRUE>>, <<"GDT_Int16", TRUE>>, <<"GDT_Int16", FALSE>>}

InitSafety ==
    \E to \in SafetyTypeOrders, obr \in {"YES", "unset"}, z \in BOOLEAN :
    \E ps \in 0 .. (GDALGetDataTypeSizeBytes(to[1]) + 1) :
       LET n == ps * (ImgWidth - 1) + GDALGetDataTypeSizeBytes(to[1])
           end == n * ImgHeight
           b == RawRasterBand(CtorArgs(TRUE, 0, ps, n,
                                       to[1], to[2], ImgWidth, ImgHeight),
                              "exact", TRUE)
       IN InitState(b, [Dataset([eAccess |-> "GA_Update", ENVI |-> FALSE],
                                obr, end + 2)
                           EXCEPT !.zeroAllocNull = z],
                    <<>>, end)

NextSafety ==
    \/ /\ last.op = "none"
       /\ \E win \in Windows(band) :
             \E req \in {Request("GF_Read", win, 0)} : RasterIO(req, {})
    \/ /\ last.op = "none"
       /\ \E win \in Windows(band), p \in Patterns :
             \E req \in {Request("GF_Write", win, p)} : RasterIO(req, {})

SpecSafety == InitSafety /\ [][NextSafety]_vars

(***************************************************************************)
(* SpecDS: dataset I/O on pixel interleaved datasets of two bands, the     *)
(* second one a raw band or a band of another class, left to right or      *)
(* right to left, with and without the INTERLEAVE metadata item, with      *)
(* GDAL_ONE_BIG_READ unset, YES and NO, on a whole file and on one that    *)
(* lacks the last line; among them the dataset of 10 x 3 pixels.  A        *)
(* behaviour is one request, or on the small datasets a write and a read   *)
(* after it.                                                               *)
(***************************************************************************)
DSShapes == {[w |-> ImgWidth, h |-> ImgHeight], [w |-> 10, h |-> 3]}
DSKinds == {"raw", "reversed", "mixed"}
Interleaves == {"unset", "PIXEL", "pixel", "BAND"}

\* band nBand of nBands pixel interleaved bands of dt
InterleavedBand(nBand, nBands, dt, native, shape, reversed) ==
    LET nDTSize == GDALGetDataTypeSizeBytes(dt)
        ps == nBands * nDTSize
    IN RawRasterBand(CtorArgs(TRUE,
                              (nBand - 1) * nDTSize
                                  + (IF reversed THEN ps * (shape.w - 1) ELSE 0),
                              IF reversed THEN -ps ELSE ps, ps * shape.w,
                              dt, native, shape.w, shape.h),
                     "exact", TRUE)

\* a band as the dataset holds it, nothing loaded, nothing cached
BandOf(b, raw) ==
    [raw |-> raw, b |-> b,
     s |-> [buf |-> Uninit(b.nLineSize), loaded |-> -1, dirty |-> FALSE],
     cache |-> EmptyCache(b)]

InitDS ==
    \E to \in FlushTypeOrders, shape \in DSShapes, kind \in DSKinds,
       il \in Interleaves, obr \in {"unset", "YES", "NO"}, short \in BOOLEAN :
       /\ shape.w = 10 => (to[1] = "GDT_Byte" /\ kind = "raw")
       /\ LET len == 2 * GDALGetDataTypeSizeBytes(to[1]) * shape.w * shape.h
              ls == 2 * GDALGetDataTypeSizeBytes(to[1]) * shape.w
          IN InitState(InterleavedBand(1, 2, to[1], to[2], shape, kind = "reversed"),
                       [Dataset([eAccess |-> "GA_Update", ENVI |-> FALSE], obr, len)
                           EXCEPT !.interleave = il],
                       <<BandOf(InterleavedBand(2, 2, to[1], to[2], shape,
                                                kind = "reversed"),
                                kind # "mixed")>>,
                       IF short THEN len - ls ELSE len)

BandMaps == {<<1>>, <<1, 2>>, <<2, 1>>}

NextDS ==
    \E rw \in {"GF_Read", "GF_Write"}, win \in Windows(band), map \in BandMaps,
       p \in Patterns :
       \E nBufXSize \in {win.xn, 1}, nBufYSize \in {win.yn, 1} :
          \E req \in {DatasetRequest(rw, win, nBufXSize, nBufYSize, map, p)} :
             /\ \/ last.op = "none"
                \/ /\ prev.op = "none" /\ last.rw = "W" /\ rw = "GF_Read"
                   /\ nBufXSize = win.xn /\ nBufYSize = win.yn
                   /\ band.nRasterXSize = ImgWidth
             /\ DatasetRasterIO(req)

SpecDS == InitDS /\ [][NextDS]_vars

(***************************************************************************)
(* SpecFrame: one dataset request on the datasets of SpecDS, with the      *)
(* callback and the data of INIT_RASTERIO_EXTRA_ARG or with a callback and *)
(* data of the caller.                                                     *)
(***************************************************************************)
ExtraArgs ==
    {[pfnProgress |-> "GDALDummyProgress", pProgressData |-> "NULL"],
     [pfnProgress |-> "pfnCaller", pProgressData |-> "pCallerData"]}

NextFrame ==
    \E rw \in {"GF_Read", "GF_Write"}, win \in Windows(band), map \in BandMaps,
       arg \in ExtraArgs :
       \E nBufYSize \in {win.yn, 1} :
          \E req \in {[DatasetRequest(rw, win, win.xn, nBufYSize, map, 1)
                          EXCEPT !.pfnProgress = arg.pfnProgress,
                                 !.pProgressData = arg.pProgressData]} :
             last.op = "none" /\ DatasetRasterIO(req)

SpecFrame == InitDS /\ [][NextFrame]_vars

(***************************************************************************)
(* SpecShared: block reads and block writes on the two bands of a pixel    *)
(* interleaved dataset, which share the file and have a line buffer each.  *)
(* The file holds the whole image.  The bands write different patterns.    *)
(***************************************************************************)
InitShared ==
    \E to \in FlushTypeOrders, reversed \in BOOLEAN :
       LET shape == [w |-> ImgWidth, h |-> ImgHeight]
           len == 2 * GDALGetDataTypeSizeBytes(to[1]) * shape.w * shape.h
       IN InitState(InterleavedBand(1, 2, to[1], to[2], shape, reversed),
                    Dataset([eAccess |-> "GA_Update", ENVI |-> FALSE], "unset", len),
                    <<BandOf(InterleavedBand(2, 2, to[1], to[2], shape, reversed),
                             TRUE)>>,
                    len)

NextShared ==
    \/ \E y \in Lines(band) : ReadBlock(y, {})
    \/ \E y \in Lines(band), p \in Patterns : WriteBlock(y, p, {})
    \/ \E y \in Lines(band) : OtherReadBlock(1, y)
    \/ \E y \in Lines(band), p \in Patterns : OtherWriteBlock(1, y, p)

SpecShared == InitShared /\ [][NextShared]_vars

(***************************************************************************)
(* SpecLayout: GetRawBinaryLayout on datasets of 1 to MaxBands bands built *)
(* with the strides and offsets of a pixel interleaved, a line interleaved *)
(* or a band sequential file, as they are or with one band, or all of      *)
(* them, changed in one respect, or with the bands in the reverse order.   *)
(* Every band constructed.                                                 *)
(***************************************************************************)
MaxBands == 5
LayoutWidths == {1, 2, 5, 8}
LayoutHeights == {1, 2, 4}
LayoutKinds == {"BIP", "BIL", "BSQ"}
Changes == {"none", "pixel_stride", "line_stride", "native_order", "data_type",
            "img_offset", "class", "band_order"}

\* the constructor arguments of band nBand of nBands in a file of the kind,
\* behind a header of nHeader bytes
LayoutArgs(kind, nBand, nBands, dt, nXSize, nYSize, nHeader) ==
    LET nDTSize == GDALGetDataTypeSizeBytes(dt)
        ps == IF kind = "BIP" THEN nBands * nDTSize ELSE nDTSize
        ls == IF kind = "BSQ" THEN nDTSize * nXSize ELSE nDTSize * nBands * nXSize
        bs == IF kind = "BIP" THEN nDTSize
              ELSE IF kind = "BIL" THEN nDTSize * nXSize ELSE ls * nYSize
    IN CtorArgs(TRUE, nHeader + bs * (nBand - 1), ps, ls, dt, TRUE, nXSize, nYSize)

\* the arguments with one of them changed
Changed(a, change) ==
    CASE change = "pixel_stride" -> [a EXCEPT !.nPixelOffset = @ + 1]
      [] change = "line_stride" -> [a EXCEPT !.nLineOffset = @ + 1]
      [] change = "native_order" -> [a EXCEPT !.bNativeOrder = ~@]
      [] change = "data_type" ->
            [a EXCEPT !.eDataType = IF @ = "GDT_Byte" THEN "GDT_Int16" ELSE "GDT_Byte"]
      [] change = "img_offset" -> [a EXCEPT !.nImgOffset = @ + 1]
      [] OTHER -> a

\* arguments a caller can pass
ValidArgs(a) ==
    /\ a.nPixelOffset \in INT_MIN..INT_MAX
    /\ a.nLineOffset \in INT_MIN..INT_MAX
    /\ a.nImgOffset \in 0..OFF_MAX

\* k is the band changed, 0 for all of them
InitLayout ==
    \E kind \in LayoutKinds, nBands \in 1..MaxBands, dt \in {"GDT_Byte", "GDT_Int16"},
       nXSize \in LayoutWidths, nYSize \in LayoutHeights, nHeader \in {0, 3},
       ub \in UBOutcomes, change \in Changes :
    \E k \in 0..nBands :
       /\ change \in {"none", "band_order"} => k = 0
       /\ change = "class" => k > 1
       /\ \E args \in {[i \in 1..nBands |->
                          IF change = "band_order"
                          THEN LayoutArgs(kind, nBands + 1 - i, nBands, dt, nXSize,
                                          nYSize, nHeader)
                          ELSE IF k \in {0, i}
                          THEN Changed(LayoutArgs(kind, i, nBands, dt, nXSize,
                                                  nYSize, nHeader), change)
                          ELSE LayoutArgs(kind, i, nBands, dt, nXSize, nYSize,
                                          nHeader)]} :
          /\ \A i \in 1..nBands : ValidArgs(args[i])
          /\ \E bs \in {[i \in 1..nBands |->
                           BandOf(RawRasterBand(args[i], ub, TRUE),
                                  ~(change = "class" /\ i = k))]} :
                /\ \A i \in 1..nBands : ~bs[i].b.bufNull
                /\ InitState(bs[1].b,
                             [Dataset([eAccess |-> "GA_ReadOnly", ENVI |-> FALSE],
                                      "unset", 0) EXCEPT !.ub = ub],
                             Tail(bs), 0)

NextLayout == GetLayout

SpecLayout == InitLayout /\ [][NextLayout]_vars

(***************************************************************************)
(* SpecSize: RAWDatasetCheckMemoryUsage with every value of                *)
(* RAW_CHECK_FILE_SIZE, on few and on many bands, narrow and wide lines,   *)
(* strides of either sign and the smallest int among them (with either     *)
(* outcome of its absolute value), band offsets that let the expected size *)
(* overflow, and files shorter and longer than half the expected size.     *)
(* The function keeps no state: a behaviour is one call.                   *)
(***************************************************************************)
SizeArgs ==
    [nXSize : {2, 101}, nYSize : {1, 3}, nBands : {1, 2, 11}, nDTSize : {1},
     nPixelOffset : {SIZE_INT_MIN, -1, 1, 200}, nLineOffset : {-2, 2},
     nHeaderSize : {0, 4}, nBandOffset : {0, 4, SizeMod \div 2}]

FileSizes == {0, 1, 2, 3, 4, 5, 10000, 10200}

InitSize ==
    \E v \in ConfigValues, ub \in UBOutcomes :
       InitState(WideBand(1, GateWidth, 2),
                 [Dataset([eAccess |-> "GA_ReadOnly", ENVI |-> FALSE], "unset", 0)
                     EXCEPT !.checkFileSize = v, !.ub = ub],
                 <<>>, 0)

NextSize ==
    \E a \in SizeArgs, size \in FileSizes :
       last.op = "none" /\ CheckMemoryUsage(a, [size |-> size])

SpecSize == InitSize /\ [][NextSize]_vars

(***************************************************************************)
(* What the claims speak of, stated from the addressing rule and not from  *)
(* the operators above: the pixel (x, y) of a band is the dt_size bytes at *)
(* img_offset + line_stride * y + pixel_stride * x, each word of them      *)
(* reversed when the band is not in native order.                          *)
(***************************************************************************)
DTSize == GDALGetDataTypeSizeBytes(band.eDataType)
Columns == 0 .. (band.nRasterXSize - 1)
PixelOffset(x, y) == band.nImgOffset + band.nLineOffset * y + band.nPixelOffset * x
Disjoint == Abs(band.nPixelOffset) >= DTSize
Constructed == ~band.bufNull

\* byte k of the file, 0 past its end
FileByte(f, k) == IF k >= 0 /\ k < Len(f) THEN f[k + 1] ELSE 0

\* index (1-based) of the byte that word reversal brings to index i of a pixel
WordSizeOf(dt) == IF dt = "GDT_CInt16" THEN 2 ELSE GDALGetDataTypeSizeBytes(dt)
Reversed(i, dt) ==
    LET ws == WordSizeOf(dt)
        w0 == ((i - 1) \div ws) * ws
    IN w0 + (ws - (i - 1 - w0))
DiskIndex(i) == IF band.bNativeOrder THEN i ELSE Reversed(i, band.eDataType)

\* host-order bytes of line y as the file f stores them, pixel after pixel
FileRow(f, y) ==
    [i \in 1 .. (band.nRasterXSize * DTSize) |->
        LET x == (i - 1) \div DTSize
            k == ((i - 1) % DTSize) + 1
        IN FileByte(f, PixelOffset(x, y) + DiskIndex(k) - 1)]

\* the pixels the line buffer holds, pixel after pixel
BufferRow ==
    [i \in 1 .. (band.nRasterXSize * DTSize) |->
        LET x == (i - 1) \div DTSize
            k == (i - 1) % DTSize
        IN pLineBuffer[band.pLineStart + band.nPixelOffset * x + k + 1]]

Src(p, y) == Pattern(p, y, band.nRasterXSize * DTSize)
FullDevice == ds.cap >= band.nLargestOffset + DTSize

ReadAfterWrite ==
    /\ last.op = "IReadBlock" /\ last.err = "CE_None"
    /\ prev.op = "IWriteBlock" /\ prev.err = "CE_None"
    /\ prev.y = last.y

C2_CacheCoherence ==
    (Constructed /\ Disjoint /\ ReadAfterWrite) =>
        /\ last.out = Src(prev.pat, last.y)
        /\ last.seeks = 0
        /\ last.reads = 0

\* C3: whenever loaded_line == y the line buffer holds the decoded current
\* contents of file line y, and a successful read_block(y) returns them
\* (bands with |pixel_stride| >= dt_size on a device with room for the image).
C3_CacheHoldsLoadedLine ==
    (Constructed /\ Disjoint /\ FullDevice) =>
        /\ nLoadedScanline \in Lines(band) => BufferRow = FileRow(file, nLoadedScanline)
        /\ (last.op = "IReadBlock" /\ last.err = "CE_None")
              => last.out = FileRow(file, last.y)

\* C5: write_block(y, src) puts on disk the per-word byte reversal of src
\* when native_order is false and src itself when it is true, and when it
\* returns, with success or failure, the line buffer holds src in host order
\* so that a following read_block(y) returns src (|pixel_stride| >= dt_size).
C5_EndianSymmetry ==
    (Constructed /\ Disjoint) =>
        /\ (last.op = "IWriteBlock" /\ last.err = "CE_None")
              => FileRow(file, last.y) = Src(last.pat, last.y)
        /\ last.op = "IWriteBlock" => BufferRow = Src(last.pat, last.y)
        /\ (last.op = "IReadBlock" /\ last.err = "CE_None"
            /\ prev.op = "IWriteBlock" /\ prev.y = last.y)
              => last.out = Src(prev.pat, last.y)

\* the parts of C5 about the bytes on disk and the line buffer alone
C5_DiskAndBuffer ==
    (Constructed /\ Disjoint) =>
        /\ (last.op = "IWriteBlock" /\ last.err = "CE_None")
              => FileRow(file, last.y) = Src(last.pat, last.y)
        /\ last.op = "IWriteBlock" => BufferRow = Src(last.pat, last.y)

\* C9: when the block-cache flush fails, Flush returns that error, does not
\* call the file's flush and leaves dirty false; when it succeeds the file's
\* flush is called iff dirty is set, a file-flush failure yields Failure, and
\* in every outcome dirty is false when Flush returns.
C9_FlushErrors ==
    last.op = "FlushCache" =>
        /\ ~bDirty
        /\ last.cacheErr # "CE_None" => (last.err = last.cacheErr /\ last.flushes = 0)
        /\ last.cacheErr = "CE_None" =>
              /\ last.flushes = (IF last.wasDirty THEN 1 ELSE 0)
              /\ last.err = (IF last.flushOk THEN "CE_None" ELSE "CE_Failure")

\* a flush whose block-cache flush failed after IWriteBlock had set bDirty
C9_Witness ==
    /\ last.op = "FlushCache"
    /\ last.cacheErr = "CE_Failure" /\ last.err = "CE_Failure"
    /\ last.wasDirty /\ ~bDirty
    /\ last.flushes = 0 /\ last.seeks > 0

\* the other side of C9: VSIFFlushL was called and failed
C9_WitnessFileFlush ==
    /\ last.op = "FlushCache"
    /\ last.cacheErr = "CE_None" /\ last.flushes = 1 /\ ~last.flushOk
    /\ last.err = "CE_Failure" /\ ~bDirty

\* C10: the second of two consecutive Flush calls performs no file write, no
\* seek and no file flush, leaves every band field unchanged and returns
\* success.
C10_FlushIdempotent ==
    (last.op = "FlushCache" /\ prev.op = "FlushCache") =>
        /\ last.writes = 0 /\ last.seeks = 0 /\ last.reads = 0 /\ last.flushes = 0
        /\ last.kept
        /\ last.err = "CE_None"

\* a second flush after a first flush that failed
C10_Witness ==
    /\ last.op = "FlushCache" /\ prev.op = "FlushCache"
    /\ prev.err = "CE_Failure"
    /\ last.err = "CE_None" /\ last.kept

\* the smallest byte offset of a pixel of line y
SmallestOfLine(y) ==
    PixelOffset(IF band.nPixelOffset < 0 THEN band.nRasterXSize - 1 ELSE 0, y)

\* C6: for every constructed band and every pixel (x, y) of it, the offset
\* img_offset + line_stride * y + pixel_stride * x is at least 0 and at most
\* the largest offset validated at construction, itself at most the signed
\* 64-bit maximum; the start offsets that AccessLine(y) and write_block(y)
\* compute in unsigned arithmetic equal the smallest pixel offset of line y.
C6_Addressing ==
    Constructed =>
        /\ band.nLargestOffset <= GINTBIG_MAX
        /\ \A y \in Lines(band), x \in Columns :
              /\ PixelOffset(x, y) >= 0
              /\ PixelOffset(x, y) <= band.nLargestOffset
        /\ \A y \in Lines(band) :
              Columns # {} =>
                 /\ LineStart(band, y) = SmallestOfLine(y)
                 /\ WriteStart(band, y) = SmallestOfLine(y)
        /\ (last.op \in {"IReadBlock", "IWriteBlock"} /\ Columns # {})
              => last.off = SmallestOfLine(last.y)

\* the last line of a band with both strides negative whose first byte in
\* the file is at offset 0 has been read
C6_Witness ==
    /\ Constructed
    /\ band.nPixelOffset < 0 /\ band.nLineOffset < 0
    /\ band.nRasterXSize > 1 /\ band.nRasterYSize > 1
    /\ last.op = "IReadBlock" /\ last.y = band.nRasterYSize - 1
    /\ last.off = 0 /\ SmallestOfLine(last.y) = 0

\* a band at the top of the offset range: its last pixel is at GINTBIG_MAX
C6_WitnessLargest ==
    /\ Constructed
    /\ band.nRasterXSize > 1 /\ band.nRasterYSize > 1
    /\ band.nLargestOffset = GINTBIG_MAX
    /\ last.op = "IWriteBlock" /\ last.y = band.nRasterYSize - 1

\* C8: every band with a non-null line buffer has width > 0 and height > 0,
\* whichever constructor built it.
C8_DimensionInvariant ==
    Constructed => (band.nRasterXSize > 0 /\ band.nRasterYSize > 0)

\* the part of C8 that holds: the width, and both dimensions of a floating band
C8_WidthAndFloating ==
    Constructed =>
        /\ band.nRasterXSize > 0
        /\ ~band.poDS => band.nRasterYSize > 0

\* C4: after a successful write of a window through the direct path, a
\* read_block(y) of a line y of the window returns, for every pixel of the
\* window on that line, the value the write put there.
C4_DirectWriteVisible ==
    (/\ Constructed
     /\ last.op = "IReadBlock" /\ last.err = "CE_None"
     /\ prev.op = "IRasterIO" /\ prev.rw = "W" /\ prev.direct
     /\ prev.err = "CE_None"
     /\ last.y \in prev.y .. (prev.y + prev.n - 1))
    => \A x \in prev.x .. (prev.x + prev.xn - 1), k \in 1..DTSize :
          last.out[x * DTSize + k] = IoValue(prev.pat, x, last.y, k)

\* C7: on a band whose line buffer is null, read_block, write_block and
\* IRasterIO return Failure and perform no read and no write on the file.
C7_InertBand ==
    (band.bufNull /\ last.op \in {"IReadBlock", "IWriteBlock", "IRasterIO"}) =>
        /\ last.err = "CE_Failure"
        /\ last.reads = 0
        /\ last.writes = 0

\* the part of C7 that holds: the block path of an inert band
C7_InertBlockPath ==
    (band.bufNull /\ last.op \in {"IReadBlock", "IWriteBlock"}) =>
        /\ last.err = "CE_Failure"
        /\ last.seeks = 0 /\ last.reads = 0 /\ last.writes = 0
        /\ last.kept

(***************************************************************************)
(* Short reads and failed seeks in AccessLine, seen through IReadBlock.    *)
(***************************************************************************)
\* nBytesActuallyRead of the read the last IReadBlock made at last.off
ActuallyRead == Max(0, Min(band.nLineSize, Len(file) - last.off))
ShortRead ==
    /\ last.op = "IReadBlock" /\ last.reads = 1
    /\ ActuallyRead < band.nLineSize

\* the byte (0-based) of the line buffer that the byte swap exchanges with
\* byte i: the words of pixel x start at |pixel_stride| * x
SwapPartner(i) ==
    IF band.bNativeOrder \/ DTSize = 1 THEN i
    ELSE LET aps == Abs(band.nPixelOffset)
             x == i \div aps
             r == i % aps
         IN IF x < band.nRasterXSize /\ r < DTSize
            THEN x * aps + Reversed(r + 1, band.eDataType) - 1
            ELSE i

C11_WitnessPastEOF ==
    /\ Constructed /\ Disjoint /\ ShortRead
    /\ ActuallyRead = 0 /\ band.nLineSize > 0
    /\ last.err = "CE_None" /\ last.out = Zeros(RowBytes(band))

\* a short read refused: read-only, no ENVI metadata
C11_WitnessFailure ==
    /\ Constructed /\ Disjoint /\ ShortRead
    /\ IsReadOnly(band, ds) /\ ~ds.ENVI
    /\ last.err = "CE_Failure"

\* the seek of the last IReadBlock failed: no read followed it
SeekFailed == last.op = "IReadBlock" /\ last.seeks = 1 /\ last.reads = 0

\* C12 (as claimed): in AccessLine a seek failure or a short read on a
\* read-write band, or on any band whose dataset is tagged ENVI, is reported
\* as success; only a read-only band without the ENVI tag gets Failure.
C12_SparseHoleAnyENVI ==
    (Constructed /\ (SeekFailed \/ ShortRead)) =>
        IF IsReadOnly(band, ds) /\ ~ds.ENVI
        THEN last.err = "CE_Failure"
        ELSE last.err = "CE_None" /\ nLoadedScanline = last.y

\* C12 (amended): a short read is zero-filled and reported as success on a
\* read-write band and on any band whose dataset is tagged ENVI, and is a
\* Failure on a read-only band without the tag; a seek failure zeroes the
\* whole line and is reported as success on a read-write band only, and is
\* a Failure on every read-only band, tagged ENVI or not.
C12_SparseHole ==
    Constructed =>
        /\ ShortRead =>
              IF IsReadOnly(band, ds) /\ ~ds.ENVI
              THEN last.err = "CE_Failure"
              ELSE last.err = "CE_None" /\ nLoadedScanline = last.y
        /\ SeekFailed =>
              IF IsReadOnly(band, ds)
              THEN last.err = "CE_Failure" /\ last.kept
              ELSE /\ last.err = "CE_None" /\ nLoadedScanline = last.y
                   /\ pLineBuffer = Zeros(band.nLineSize)
                   /\ last.out = Zeros(RowBytes(band))

\* a seek that failed on a read-only dataset tagged ENVI
C12_Witness ==
    /\ Constructed /\ SeekFailed
    /\ IsReadOnly(band, ds) /\ ds.ENVI
    /\ last.err = "CE_Failure"

\* a seek that failed on a read-write band: the line is zero
C12_WitnessRecovered ==
    /\ Constructed /\ SeekFailed /\ ~IsReadOnly(band, ds)
    /\ last.err = "CE_None" /\ nLoadedScanline = last.y
    /\ pLineBuffer = Zeros(band.nLineSize) /\ band.nLineSize > 0

(***************************************************************************)
(* Windowed I/O on the direct path.  The requests of SpecIO have a buffer  *)
(* as large as the window, of the band's data type, and packed.            *)
(***************************************************************************)
DirectReadDone ==
    /\ last.op = "IRasterIO" /\ last.rw = "R" /\ last.direct
    /\ last.err = "CE_None"

\* C13: whenever band IO takes the direct read path with a buffer as large
\* as the window, the value delivered for output pixel (i, j) is the pixel
\* stored at offset(xOff + i, yOff + j), for every line stride.
C13_DirectReadAddressing ==
    (Constructed /\ DirectReadDone) =>
        \A j \in 0 .. (last.n - 1), i \in 0 .. (last.xn - 1), k \in 1..DTSize :
            last.out[(j * last.xn + i) * DTSize + k]
                = FileByte(file, PixelOffset(last.x + i, last.y + j) + DiskIndex(k) - 1)

\* the request l took the contiguous case of the direct path
ContiguousCase(l) ==
    /\ l.op = "IRasterIO" /\ l.direct
    /\ l.xn = band.nRasterXSize
    /\ band.nPixelOffset = DTSize

\* C14: a contiguous direct write on a band that is not in native order
\* (dt_size > 1) puts in the file, for every one of the wIn * hIn words of
\* all rows, the byte reversal of the caller's value, and leaves the
\* caller's buffer with its original values; a following contiguous direct
\* read of the same window returns the caller's values.
C14_ContiguousWriteSwapsAllRows ==
    (Constructed /\ ~band.bNativeOrder /\ DTSize > 1) =>
        /\ (ContiguousCase(last) /\ last.rw = "W" /\ last.err = "CE_None") =>
              /\ \A q \in 0 .. (last.xn * last.n - 1), k \in 1..DTSize :
                    FileByte(file, PixelOffset(0, last.y) + q * DTSize
                                   + DiskIndex(k) - 1)
                        = IoValue(last.pat, q % last.xn, last.y + q \div last.xn, k)
              /\ last.out = IoPattern(last.pat, last.x, last.y, last.xn, last.n, DTSize)
        /\ (/\ ContiguousCase(last) /\ last.rw = "R" /\ last.err = "CE_None"
            /\ ContiguousCase(prev) /\ prev.rw = "W" /\ prev.err = "CE_None"
            /\ prev.y = last.y /\ prev.n = last.n) =>
              last.out = IoPattern(prev.pat, last.x, last.y, last.xn, last.n, DTSize)

(***************************************************************************)
(* The gate CanUseDirectIO.                                                *)
(***************************************************************************)
Truthy == {"YES", "ON", "1"}
Falsy == {"NO", "OFF", "FALSE", "0"}

\* the lines of the last request that the block cache holds
LinesLoaded ==
    Cardinality({y \in last.y .. (last.y + last.n - 1) :
                    y \in Lines(band) /\ blockCache[y] # <<>>})

\* the heuristic: a line of 50000 bytes or more, a window of at most 40% of
\* the line, at most 5% of the lines asked for in the block cache
Heuristic ==
    /\ band.nLineSize >= 50000
    /\ last.xn <= ((band.nLineSize \div band.nPixelOffset) \div 5) * 2
    /\ 20 * LinesLoaded <= last.n

C15_WitnessHeuristic ==
    /\ last.op = "CanUseDirectIO" /\ ds.oneBigRead = "unset"
    /\ LinesLoaded = 1 /\ last.n = 20 /\ last.direct

\* a truthy option on a band with a negative pixel stride: no direct I/O
C15_WitnessNegativeStride ==
    /\ last.op = "CanUseDirectIO" /\ ds.oneBigRead \in Truthy
    /\ band.nPixelOffset < 0 /\ last.alg = "GRIORA_NearestNeighbour"
    /\ ~last.direct

(***************************************************************************)
(* Dataset I/O.                                                            *)
(***************************************************************************)
DatasetIODone == last.op = "RawDataset::IRasterIO"

\* the request of the last operation, as CanUseDirectIO looks at it
LastWindow ==
    [nXOff |-> last.x, nYOff |-> last.y, nXSize |-> last.xn, nYSize |-> last.n,
     eResampleAlg |-> last.alg]

\* the condition of the per-band direct path; INTERLEAVE is compared without
\* regard to case
DirectPathCondition ==
    /\ last.xn = last.nBufXSize
    /\ last.n = last.nBufYSize
    /\ Len(last.panBandMap) > 1
    /\ ds.interleave \in {"PIXEL", "pixel"}
    /\ \A i \in 1..Len(last.panBandMap) :
          /\ Bands[last.panBandMap[i]].raw
          /\ CanUseDirectIO(Bands[last.panBandMap[i]].b, ds,
                            Bands[last.panBandMap[i]].cache, LastWindow)

\* call i of the dispatcher is the I/O of band panBandMap[i] on the
\* sub-buffer data + (i - 1) * band_space
InRequestOrder ==
    \A i \in 1..Len(last.calls) :
        /\ last.calls[i].band = last.panBandMap[i]
        /\ last.calls[i].off = (i - 1) * last.nBandSpace

\* C16 as claimed: with the direct path taken, every band of the request
\* has its I/O called
C16_DispatchCallsEveryBand ==
    DatasetIODone =>
        /\ ~last.delegated <=> DirectPathCondition
        /\ ~last.delegated =>
              Len(last.calls) = Len(last.panBandMap) /\ InRequestOrder
        /\ last.delegated => last.calls = <<>>

\* C16: the per-band direct path is taken iff the buffer has the size of the
\* window, more than one band is requested, INTERLEAVE is PIXEL and every
\* requested band is a raw band whose CanUseDirectIO returns true; it then
\* calls the bands' I/O in request order on the sub-buffers data +
\* iBand * band_space until one of them fails or all are done; in every
\* other case the request is delegated and the dispatcher issues no band I/O
C16_Dispatch ==
    DatasetIODone =>
        /\ ~last.delegated <=> DirectPathCondition
        /\ ~last.delegated =>
              /\ InRequestOrder
              /\ Len(last.calls) \in 1..Len(last.panBandMap)
              /\ \A i \in 1..(Len(last.calls) - 1) : last.calls[i].err = "CE_None"
              /\ last.calls[Len(last.calls)].err = last.err
              /\ last.err = "CE_None" => Len(last.calls) = Len(last.panBandMap)
        /\ last.delegated => last.calls = <<>>

\* the bands 2 and 1, in this order, read on the direct path
C16_Witness ==
    /\ DatasetIODone /\ ~last.delegated /\ last.err = "CE_None"
    /\ last.panBandMap = <<2, 1>>
    /\ Len(last.calls) = 2 /\ last.calls[2].off = last.nBandSpace
    /\ \A i \in 1..2 : last.calls[i].direct

\* the direct path stopped after the first band, whose I/O failed
C16_WitnessStopped ==
    /\ DatasetIODone /\ ~last.delegated /\ last.err # "CE_None"
    /\ Len(last.panBandMap) = 2 /\ Len(last.calls) = 1

\* delegated for each of its reasons: one band, a buffer of another size,
\* no INTERLEAVE item, a band of another class, a band whose gate is closed
C16_WitnessOneBand == DatasetIODone /\ last.delegated /\ Len(last.panBandMap) = 1
C16_WitnessResampled ==
    /\ DatasetIODone /\ last.delegated /\ Len(last.panBandMap) = 2
    /\ ds.interleave = "PIXEL" /\ ds.oneBigRead = "YES" /\ otherBands[1].raw
    /\ band.nPixelOffset > 0
    /\ last.xn # last.nBufXSize /\ last.n = last.nBufYSize
C16_WitnessOtherClass ==
    /\ DatasetIODone /\ last.delegated /\ Len(last.panBandMap) = 2
    /\ ds.interleave = "PIXEL" /\ ds.oneBigRead = "YES" /\ ~otherBands[1].raw
    /\ last.xn = last.nBufXSize /\ last.n = last.nBufYSize
C16_WitnessGateClosed ==
    /\ DatasetIODone /\ last.delegated /\ Len(last.panBandMap) = 2
    /\ ds.interleave = "PIXEL" /\ ds.oneBigRead = "unset" /\ otherBands[1].raw
    /\ last.xn = last.nBufXSize /\ last.n = last.nBufYSize

\* the dataset of scenario 4: two GDT_Byte bands of 10 x 3 pixels, pixel
\* interleaved, in a file of 60 bytes
Scenario4 ==
    /\ band.eDataType = "GDT_Byte"
    /\ band.nRasterXSize = 10 /\ band.nRasterYSize = 3
    /\ band.nPixelOffset = 2 /\ band.nLineOffset = 20
    /\ band.nImgOffset = 0 /\ otherBands[1].raw /\ otherBands[1].b.nImgOffset = 1
    /\ ds.interleave = "PIXEL"
    /\ Len(file) = 60

\* its full-raster read of both bands into a packed buffer: pixel_space 1,
\* line_space 10, band_space 30
Scenario4Read ==
    /\ Scenario4 /\ DatasetIODone /\ last.rw = "R"
    /\ last.panBandMap = <<1, 2>>
    /\ last.x = 0 /\ last.y = 0 /\ last.xn = 10 /\ last.n = 3
    /\ last.nBufXSize = 10 /\ last.nBufYSize = 3 /\ last.nBandSpace = 30

\* the 30 bytes of band 1, then the 30 bytes of band 2
Scenario4Data ==
    /\ last.err = "CE_None"
    /\ Len(last.out) = 60
    /\ \A k \in 1..2, y \in 0..2, x \in 0..9 :
          last.out[30 * (k - 1) + 10 * y + x + 1] = file[(k - 1) + 20 * y + 2 * x + 1]

\* C17 as claimed: the read of scenario 4 takes the per-band direct path
C17_Scenario4DirectAlways ==
    Scenario4Read =>
        /\ ~last.delegated /\ \A i \in 1..Len(last.calls) : last.calls[i].direct
        /\ Scenario4Data

\* C17: the full-raster read of scenario 4 fills the buffer with the 30
\* bytes of band 1 followed by the 30 bytes of band 2; it takes the per-band
\* direct path, for both bands, when GDAL_ONE_BIG_READ is truthy and only
\* then
C17_Scenario4 ==
    Scenario4Read =>
        /\ Scenario4Data
        /\ ~last.delegated <=> ds.oneBigRead \in Truthy
        /\ ~last.delegated =>
              Len(last.calls) = 2 /\ \A i \in 1..2 : last.calls[i].direct

C17_Witness ==
    Scenario4Read /\ ds.oneBigRead = "YES" /\ ~last.delegated /\ Scenario4Data

\* the same read with GDAL_ONE_BIG_READ unset
C17_WitnessUnset ==
    Scenario4Read /\ ds.oneBigRead = "unset" /\ last.delegated /\ Scenario4Data

(***************************************************************************)
(* Layout inference.                                                       *)
(***************************************************************************)
LayoutDone == last.op = "GetRawBinaryLayout"
nBands == Len(Bands)

\* the bands have the strides and offsets of a file of the kind, band 1 at
\* its offset, and share data type and byte order
ConstructedAs(kind) ==
    \A i \in 1..nBands :
        /\ Bands[i].raw
        /\ Bands[i].b.eDataType = band.eDataType
        /\ Bands[i].b.bNativeOrder = band.bNativeOrder
        /\ \E a \in {LayoutArgs(kind, i, nBands, band.eDataType, band.nRasterXSize,
                               band.nRasterYSize, band.nImgOffset)} :
              /\ Bands[i].b.nImgOffset = a.nImgOffset
              /\ Bands[i].b.nPixelOffset = a.nPixelOffset
              /\ Bands[i].b.nLineOffset = a.nLineOffset

\* C18 as claimed: a BIP, BIL or BSQ construction of any band count, width,
\* height and dt_size is reported as what it is, and is of one kind only
C18_LayoutRoundTrip ==
    LayoutDone =>
        /\ \A kind \in LayoutKinds :
              ConstructedAs(kind) =>
                 last.ret.ok /\ last.ret.sLayout.eInterleaving = kind
        /\ Cardinality({kind \in LayoutKinds : ConstructedAs(kind)}) <= 1

\* what holds of it: with more than one band, and dt_size * nBands * width
\* in the range of int, the construction is reported as what it is
LayoutRoundTripInRange ==
    (/\ LayoutDone /\ nBands > 1
     /\ DTSize * nBands * band.nRasterXSize <= INT_MAX) =>
        /\ \A kind \in LayoutKinds :
              ConstructedAs(kind) =>
                 last.ret.ok /\ last.ret.sLayout.eInterleaving = kind
        /\ Cardinality({kind \in LayoutKinds : ConstructedAs(kind)}) <= 1

\* a single band has the strides of all three kinds and is reported UNKNOWN
SingleBandUnknown ==
    (LayoutDone /\ nBands = 1) =>
        /\ last.ret.ok /\ last.ret.sLayout.eInterleaving = "UNKNOWN"
        /\ (ConstructedAs("BIP") <=> ConstructedAs("BIL"))
        /\ (ConstructedAs("BIL") <=> ConstructedAs("BSQ"))

\* the overflow of dt_size * nBands * width: a band sequential file reported
\* as line interleaved
OverflowReportsBIL ==
    /\ LayoutDone /\ ConstructedAs("BSQ") /\ nBands > 1
    /\ last.ret.ok /\ last.ret.sLayout.eInterleaving = "BIL"

\* what makes the layout unknown
SomeBandNotRaw == \E i \in 1..nBands : ~Bands[i].raw
SomeBandDiffers ==
    \E i \in 1..nBands :
        \/ Bands[i].b.nPixelOffset # band.nPixelOffset
        \/ Bands[i].b.nLineOffset # band.nLineOffset
        \/ Bands[i].b.bNativeOrder # band.bNativeOrder
        \/ Bands[i].b.eDataType # band.eDataType
BandStride == Bands[2].b.nImgOffset - band.nImgOffset
SomeBandOffTheStride ==
    \E i \in 3..nBands :
        Bands[i].b.nImgOffset # band.nImgOffset + BandStride * (i - 1)

\* C19: GetRawBinaryLayout fails iff some band is not a raw band, or some
\* band differs from band 1 in pixel_stride, line_stride, native_order or
\* data_type, or some band i >= 3 has img_offset # I + band_stride * (i - 1)
\* with band_stride = bands[2].img_offset - I; otherwise it succeeds and
\* reports band 1's data type, offset and strides together with band_stride
C19_LayoutConsistency ==
    LayoutDone =>
        /\ ~last.ret.ok <=>
              (SomeBandNotRaw \/ SomeBandDiffers \/ SomeBandOffTheStride)
        /\ ~last.ret.ok => last.ret.sLayout = "-"
        /\ last.ret.ok =>
              /\ last.ret.sLayout.eDataType = band.eDataType
              /\ last.ret.sLayout.nImageOffset = band.nImgOffset
              /\ last.ret.sLayout.nPixelOffset = band.nPixelOffset
              /\ last.ret.sLayout.nLineOffset = band.nLineOffset
              /\ nBands > 1 => last.ret.sLayout.nBandOffset = BandStride

\* three bands and more at one stride: success
C19_Witness ==
    /\ LayoutDone /\ nBands >= 3 /\ last.ret.ok
    /\ last.ret.sLayout.nBandOffset = BandStride /\ BandStride > 0
\* a negative band stride
C19_WitnessNegative ==
    LayoutDone /\ nBands >= 3 /\ last.ret.ok /\ last.ret.sLayout.nBandOffset < 0
\* each reason of a failure alone
C19_WitnessNotRaw ==
    LayoutDone /\ ~last.ret.ok /\ SomeBandNotRaw /\ ~SomeBandDiffers
    /\ ~SomeBandOffTheStride
C19_WitnessDiffers ==
    LayoutDone /\ ~last.ret.ok /\ ~SomeBandNotRaw /\ SomeBandDiffers
    /\ ~SomeBandOffTheStride /\ Bands[nBands].b.bNativeOrder # band.bNativeOrder
C19_WitnessOffTheStride ==
    LayoutDone /\ ~last.ret.ok /\ ~SomeBandNotRaw /\ ~SomeBandDiffers
    /\ SomeBandOffTheStride

(***************************************************************************)
(* The check of the file size before a dataset is opened.                  *)
(***************************************************************************)
SizeCheckDone == last.op = "RAWDatasetCheckMemoryUsage"

\* the size check is due by the claim's rule
SizeCheckDue ==
    \/ ds.checkFileSize \in Truthy
    \/ /\ ds.checkFileSize = "unset"
       /\ \/ last.ret.a.nBands > 10
          \/ last.ret.a.nPixelOffset * last.ret.a.nXSize > 20000

\* expected_size as an integer, of any size
ExpectedSize ==
    last.ret.a.nHeaderSize
    + last.ret.a.nBandOffset * (last.ret.a.nBands - 1)
    + (IF last.ret.a.nLineOffset >= 0
       THEN last.ret.a.nLineOffset * (last.ret.a.nYSize - 1) ELSE 0)
    + (IF last.ret.a.nPixelOffset >= 0
       THEN last.ret.a.nPixelOffset * (last.ret.a.nXSize - 1) ELSE 0)

SizeRejected == ~last.ret.r.ok /\ last.ret.r.error = "Image file is too small"

\* the size check was performed: the call asked for the size of the file, or
\* failed on the expected size before asking
SizeCheckPerformed == last.ret.r.told \/ SizeRejected

\* C20: the size check is performed iff RAW_CHECK_FILE_SIZE is truthy, or it
\* is unset and (nBands > 10 or pixel_stride * width > 20000); when
\* performed it rejects iff expected_size cannot be computed without
\* overflow or actual_size < expected_size / 2; with a falsy
\* RAW_CHECK_FILE_SIZE the file size is never consulted
C20_FileSizeCheck ==
    SizeCheckDone =>
        /\ SizeCheckPerformed <=> SizeCheckDue
        /\ SizeCheckPerformed =>
              (SizeRejected <=> (\/ ExpectedSize >= SizeMod
                                 \/ last.ret.fp.size < ExpectedSize \div 2))
        /\ ds.checkFileSize \in Falsy => ~last.ret.r.told

\* what holds of it: the claim on pixel strides that are not negative
FileSizeCheckForward ==
    (SizeCheckDone /\ last.ret.a.nPixelOffset >= 0) =>
        /\ SizeCheckPerformed <=> SizeCheckDue
        /\ SizeCheckPerformed =>
              (SizeRejected <=> (\/ ExpectedSize >= SizeMod
                                 \/ last.ret.fp.size < ExpectedSize \div 2))
        /\ ds.checkFileSize \in Falsy => ~last.ret.r.told

\* a negative pixel stride, RAW_CHECK_FILE_SIZE unset, one narrow band: the
\* file is rejected for its size
NegativeStrideChecked ==
    /\ SizeCheckDone /\ ds.checkFileSize = "unset"
    /\ last.ret.a.nPixelOffset < 0 /\ last.ret.a.nBands = 1
    /\ SizeRejected

\* one band's scanline size, as an integer of any size
ScanlineBytes ==
    Abs(last.ret.a.nPixelOffset) * (last.ret.a.nXSize - 1) + last.ret.a.nDTSize
ScanlineLimit == SIZE_INT_MAX \div (4 * last.ret.a.nBands)

\* C21: RAWDatasetCheckMemoryUsage rejects whenever one band's scanline size
\* |pixel_stride| * (width - 1) + dt_size exceeds INT_MAX / (4 * nBands),
\* whatever the file-size check and RAW_CHECK_FILE_SIZE, and accepts, the
\* size check passed or skipped, whenever it does not
C21_ScanlineLimit ==
    SizeCheckDone =>
        /\ ScanlineBytes > ScanlineLimit => ~last.ret.r.ok
        /\ (ScanlineBytes <= ScanlineLimit /\ ~SizeRejected) => last.ret.r.ok

\* what holds of it: the claim on every pixel stride but the smallest int
ScanlineLimitAboveIntMin ==
    (SizeCheckDone /\ last.ret.a.nPixelOffset # SIZE_INT_MIN) =>
        /\ ScanlineBytes > ScanlineLimit => ~last.ret.r.ok
        /\ (ScanlineBytes <= ScanlineLimit /\ ~SizeRejected) => last.ret.r.ok

\* both sides of the limit, and the smallest int accepted
ScanlineRejected ==
    /\ SizeCheckDone /\ last.ret.a.nPixelOffset > 0
    /\ ~last.ret.r.ok /\ last.ret.r.error = "Too much memory needed"
    /\ ds.checkFileSize \in Falsy
ScanlineAccepted ==
    /\ SizeCheckDone /\ last.ret.a.nPixelOffset = 200 /\ last.ret.r.ok
IntMinAccepted ==
    /\ SizeCheckDone /\ last.ret.a.nPixelOffset = SIZE_INT_MIN /\ last.ret.r.ok

(***************************************************************************)
(* The progress callback of band IO.                                       *)
(***************************************************************************)
\* the request l took the general case of the direct path
GeneralCase(l) == l.op = "IRasterIO" /\ l.direct /\ ~ContiguousCase(l)

\* the calls of the callback after the output rows 0 .. k-1 of n
ProgressLog(k, n) == [i \in 1..k |-> <<i, n>>]

\* the callback of the last request returned FALSE
Cancelled == last.cancelAt \in 1 .. last.n

\* the rows the last request handles before the callback stops it
RowsBeforeStop == IF Cancelled THEN last.cancelAt ELSE last.n

\* the rows of a read after the one at which the callback returned FALSE
\* are not read: the caller's buffer keeps its bytes
LaterRowsNotRead ==
    /\ last.reads = last.cancelAt
    /\ \A i \in (last.cancelAt * last.xn * DTSize + 1) .. Len(last.out) :
          last.out[i] = CallerBuffer(Len(last.out))[i]

\* C22: in the general case of the direct path, for reads and for writes,
\* the progress callback (when supplied) is consulted exactly once after
\* each output row iLine, with (iLine + 1) / hOut; when it returns FALSE the
\* operation returns CE_Failure before any later row is read or written;
\* and the callback is consulted at no other point of band IO.
C22_Cancellation ==
    Constructed =>
        /\ (GeneralCase(last) /\ last.cancelAt # 0) =>
              /\ last.progress = ProgressLog(RowsBeforeStop, last.n)
              /\ Cancelled =>
                    /\ last.err = "CE_Failure"
                    /\ last.rw = "R" => LaterRowsNotRead
                    /\ last.rw = "W" => last.writes = last.cancelAt
              /\ ~Cancelled => last.err = "CE_None"
        /\ ~(GeneralCase(last) /\ last.cancelAt # 0) => last.progress = <<>>

\* the same for reads alone
CancellationOfReads ==
    Constructed =>
        /\ (GeneralCase(last) /\ last.rw = "R" /\ last.cancelAt # 0) =>
              /\ last.progress = ProgressLog(RowsBeforeStop, last.n)
              /\ Cancelled => last.err = "CE_Failure" /\ LaterRowsNotRead
              /\ ~Cancelled => last.err = "CE_None"
        /\ ~(GeneralCase(last) /\ last.rw = "R" /\ last.cancelAt # 0) =>
              last.progress = <<>>

\* a general-case write never consults the callback and writes every row
WriteIgnoresCallback ==
    (Constructed /\ GeneralCase(last) /\ last.rw = "W") =>
        /\ last.progress = <<>>
        /\ last.err = "CE_None"
        /\ last.writes = last.n

\* a read stopped after its first row, of two
ReadCancelled ==
    /\ Constructed /\ GeneralCase(last) /\ last.rw = "R"
    /\ last.cancelAt = 1 /\ last.n > 1
    /\ last.err = "CE_Failure" /\ last.progress = <<<<1, last.n>>>>

\* a write whose callback would have stopped it after its first row
WriteNotCancelled ==
    /\ Constructed /\ GeneralCase(last) /\ last.rw = "W"
    /\ last.cancelAt = 1 /\ last.n > 1
    /\ last.err = "CE_None" /\ last.writes = last.n

(***************************************************************************)
(* The memory-mapped view.                                                 *)
(***************************************************************************)
VirtualMemDone == last.op = "GetVirtualMemAuto"

\* USE_DEFAULT_IMPLEMENTATION is YES, ON, 1 or TRUE, in either case
ForcesDefault(impl) == ToUpper(impl) \in {"YES", "ON", "1", "TRUE"}

\* the span of the image, as a number
Span ==
    (band.nRasterYSize - 1) * band.nLineOffset
    + (band.nRasterXSize - 1) * band.nPixelOffset + DTSize

\* the conditions of the band's own view
ViewConditions ==
    /\ last.env.fd
    /\ last.env.avail
    /\ (band.bNativeOrder \/ DTSize = 1)
    /\ band.nPixelOffset >= 0
    /\ band.nLineOffset >= 0
    /\ Span < Pow2(last.env.sizeBits)
    /\ ~ForcesDefault(last.env.impl)

\* what the claim says of the band's own view
OwnView ==
    /\ last.calls = <<"FlushCache", "CPLVirtualMemFileMapNew">>
    /\ blockCache = EmptyCache(band)
    /\ last.view.mapped = file
    /\ last.view.nPixelSpace = band.nPixelOffset
    /\ last.view.nLineSpace = band.nLineOffset

\* C23: the band returns its own mapped view only when the file has a
\* native descriptor, file mapping is available, native_order or dt_size
\* = 1, both strides are >= 0, the span fits the native size type and the
\* caller did not force the generic implementation; in that case Flush is
\* executed before the mapping is created and the view reports pixel_space
\* = pixel_stride and line_space = line_stride; in every other case the
\* external default implementation is used.
C23_MappedViewWhenever ==
    (Constructed /\ VirtualMemDone) =>
        /\ last.ret = "own" => ViewConditions
        /\ ViewConditions => (last.ret = "own" /\ OwnView)
        /\ last.ret # "own" => last.ret = "default"

\* C23, with the mapping that fails: under the conditions the band flushes
\* and asks for the mapping; when the mapping is made the view is the
\* band's own, it is made of the file as the flush left it and reports the
\* band's strides; when it is not made the default implementation is used
\* after the flush, unless USE_DEFAULT_IMPLEMENTATION is NO, OFF, 0 or
\* FALSE: then the result is null.  Without the conditions the default
\* implementation is used and nothing is flushed.
C23_MappedView ==
    (Constructed /\ VirtualMemDone) =>
        /\ last.ret = "own" <=> (ViewConditions /\ last.env.mapOk)
        /\ last.ret = "own" => OwnView
        /\ ~ViewConditions =>
              /\ last.ret = "default"
              /\ last.calls = <<"GDALRasterBand::GetVirtualMemAuto">>
              /\ last.writes = 0 /\ last.flushes = 0
        /\ (ViewConditions /\ ~last.env.mapOk) =>
              /\ last.ret = IF ToUpper(last.env.impl) \in {"NO", "OFF", "0", "FALSE"}
                            THEN "null" ELSE "default"
              /\ last.calls[1] = "FlushCache"
              /\ blockCache = EmptyCache(band)

\* the band's own view, made after a block of the cache was written out
C23_Witness ==
    /\ Constructed /\ VirtualMemDone /\ last.ret = "own"
    /\ prev.op = "CachePut" /\ last.writes = 1 /\ last.flushes = 1
    /\ last.view.mapped = file /\ file # Orig(Len(file))

\* the mapping failed and the caller refused the default implementation
C23_WitnessNull ==
    Constructed /\ VirtualMemDone /\ ViewConditions /\ last.ret = "null"

\* the span is all that keeps the band from its own view
C23_WitnessSpan ==
    /\ Constructed /\ VirtualMemDone /\ last.ret = "default"
    /\ Span >= Pow2(last.env.sizeBits)
    /\ last.env.fd /\ last.env.avail /\ last.env.impl = "AUTO"
    /\ band.bNativeOrder /\ band.nPixelOffset >= 0 /\ band.nLineOffset >= 0

\* a band of bytes that is not in native order gets its own view
C23_WitnessByte ==
    Constructed /\ VirtualMemDone /\ last.ret = "own" /\ ~band.bNativeOrder

(***************************************************************************)
(* Teardown.                                                               *)
(***************************************************************************)
Destroyed == last.op = "~RawRasterBand"

\* the place of the call c in the calls of the last operation, 0 if none
PlaceOf(c) ==
    IF \E i \in 1..Len(last.calls) : last.calls[i] = c
    THEN CHOOSE i \in 1..Len(last.calls) : last.calls[i] = c
    ELSE 0

\* C24: destroying a band first runs Flush (block-cache flush, then file
\* flush if dirty), then closes the file iff owns_file, then frees the line
\* buffer; no write or flush is issued on the file after it is closed, and
\* a band with owns_file false never closes the file.
C24_TeardownOrder ==
    Destroyed =>
        /\ last.calls[1] = "FlushCache"
        /\ blockCache = EmptyCache(band) /\ ~bDirty
        /\ (last.wasDirty /\ last.cacheErr = "CE_None") => last.flushes = 1
        /\ ~last.wasDirty => last.flushes = 0
        /\ (PlaceOf("VSIFCloseL") # 0) <=> band.bOwnsFP
        /\ (last.ret = "closed") <=> band.bOwnsFP
        /\ last.calls[Len(last.calls)] = "CPLFree" /\ pLineBuffer = <<>>
        /\ band.bOwnsFP => PlaceOf("VSIFCloseL") = Len(last.calls) - 1
        /\ \A i \in 1..Len(last.calls) :
              last.calls[i] \in {"VSIFWriteL", "VSIFFlushL"} =>
                  /\ i > 1
                  /\ band.bOwnsFP => i < PlaceOf("VSIFCloseL")

\* an owning band destroyed with a dirty block and unflushed writes
C24_Witness ==
    /\ Destroyed /\ Constructed /\ band.bOwnsFP
    /\ last.writes = 1 /\ last.flushes = 1
    /\ last.calls = <<"FlushCache", "VSIFWriteL", "VSIFFlushL", "VSIFCloseL", "CPLFree">>

\* a band that does not own its file, destroyed in the same state
C24_WitnessBorrowed ==
    /\ Destroyed /\ Constructed /\ ~band.bOwnsFP
    /\ last.calls = <<"FlushCache", "VSIFWriteL", "VSIFFlushL", "CPLFree">>

(***************************************************************************)
(* The bands of a pixel interleaved dataset on their shared file.          *)
(***************************************************************************)
\* band nBand of the dataset and its loaded line
BandNo(nBand) == Bands[nBand].b
LoadedLineOf(nBand) == Bands[nBand].s.loaded

\* the byte at offset k of the file is in a pixel of line y of band nBand
OwnCell(nBand, y, k) ==
    \E x \in 0 .. (BandNo(nBand).nRasterXSize - 1), j \in 0 .. (DTSize - 1) :
        k = BandNo(nBand).nImgOffset + y * BandNo(nBand).nLineOffset
            + x * BandNo(nBand).nPixelOffset + j

\* the bytes of the file that the step changes are in pixels of the line
\* and the band of the operation
ChangesOwnCellsOnly ==
    \A k \in 0 .. (Len(file) - 1) :
        file'[k + 1] # file[k + 1] => OwnCell(last'.nBand, last'.y, k)

\* C25: in a pixel interleaved dataset whose bands share one file, for
\* every interleaving of read_block and write_block calls on the bands, a
\* write_block(y, src) on one band changes only that band's own pixel cells
\* of line y; the bytes of every other band's pixels keep the value last
\* written by their own band.
C25_GapPreservation ==
    [][last'.op = "IWriteBlock" => ChangesOwnCellsOnly]_vars

\* the same for the writes of a band that has another line loaded, or none
GapPreservationOnLoad ==
    [][(last'.op = "IWriteBlock" /\ LoadedLineOf(last'.nBand) # last'.y)
           => ChangesOwnCellsOnly]_vars

\* a block read changes no byte of the file
ReadsChangeNothing ==
    [][last'.op = "IReadBlock" => file' = file]_vars

(***************************************************************************)
(* The dirty flag.                                                         *)
(***************************************************************************)
\* the step is a block write or a windowed write that changed the file
WroteToFile == last'.op \in {"IWriteBlock", "IRasterIO"} /\ file' # file

\* C26: when the band has written bytes to the file (through write_block,
\* through the contiguous direct write or through a general direct write,
\* one that failed after writing some rows included), dirty is true
\* afterwards, and it stays true until the next Flush.
C26_DirtyTracksWrites ==
    [][/\ WroteToFile => bDirty'
       /\ (bDirty /\ ~bDirty') => last'.op = "FlushCache"]_vars

\* the same for block writes and for general direct writes that succeed
DirtyAfterCompleteWrites ==
    [][/\ (WroteToFile /\ last'.op = "IWriteBlock") => bDirty'
       /\ (WroteToFile /\ GeneralCase(last') /\ last'.err = "CE_None") => bDirty'
       /\ (bDirty /\ ~bDirty') => last'.op = "FlushCache"]_vars

\* a contiguous direct write never sets the flag
ContiguousWriteLeavesFlag ==
    [][(ContiguousCase(last') /\ last'.rw = "W") => bDirty' = bDirty]_vars

\* a general direct write that fails leaves the flag as it was
FailedWriteLeavesFlag ==
    [][(GeneralCase(last') /\ last'.rw = "W" /\ last'.err = "CE_Failure")
           => bDirty' = bDirty]_vars

\* a contiguous direct write has changed the file and the flag is not set
ContiguousWriteNotDirty ==
    /\ ContiguousCase(last) /\ last.rw = "W" /\ last.err = "CE_None"
    /\ ~last.kept /\ ~bDirty

\* a general direct write failed at its second row and the flag is not set
FailedWriteNotDirty ==
    /\ GeneralCase(last) /\ last.rw = "W" /\ last.err = "CE_Failure"
    /\ last.writes = 1 /\ ~last.kept /\ ~bDirty

(***************************************************************************)
(* AccessBlock.                                                            *)
(***************************************************************************)
BlockDone == last.op = "AccessBlock"

\* the bytes AccessBlock obtained from the file
BlockBytesRead ==
    IF last.reads = 0 THEN 0 ELSE Min(last.n, Max(0, Len(file) - last.off))

\* the band words of the block: word w starts at w * nPixelOffset
BlockWords == 0 .. ((last.n \div band.nPixelOffset) - 1)

\* word w of the block holds the word of the file in host order if it was
\* read, and zeros if no byte of it was read
WordInHostOrder(w) ==
    \A k \in 1..DTSize :
        IF w * band.nPixelOffset + DTSize <= BlockBytesRead
        THEN last.out[w * band.nPixelOffset + k]
                 = FileByte(file, last.off + w * band.nPixelOffset + DiskIndex(k) - 1)
        ELSE (w * band.nPixelOffset >= BlockBytesRead)
                 => last.out[w * band.nPixelOffset + k] = 0

\* C27: for a band with native_order false and dt_size > 1, AccessBlock
\* returns success with every band word it obtained from the file converted
\* to host order, also when the read was short: the words actually read
\* are byte-swapped and only the unread tail is zero.
C27_BlockByteOrder ==
    (BlockDone /\ ~band.bNativeOrder /\ DTSize > 1) =>
        /\ last.err = "CE_None"
        /\ \A w \in BlockWords : WordInHostOrder(w)

\* the same for the reads that are not short
BlockByteOrderFullRead ==
    (BlockDone /\ ~band.bNativeOrder /\ DTSize > 1
     /\ BlockBytesRead \in {0, last.n}) =>
        /\ last.err = "CE_None"
        /\ \A w \in BlockWords : WordInHostOrder(w)

\* after a short read the block holds the bytes read as the file has them,
\* and zeros
ShortBlockNotSwapped ==
    (BlockDone /\ BlockBytesRead < last.n) =>
        /\ last.err = "CE_None"
        /\ \A i \in 1..last.n :
              last.out[i] = IF i <= BlockBytesRead
                            THEN FileByte(file, last.off + i - 1) ELSE 0

\* a short read that obtained a whole word of a band not in native order
ShortBlockWithWord ==
    /\ BlockDone /\ ~band.bNativeOrder /\ DTSize > 1
    /\ BlockBytesRead < last.n /\ BlockBytesRead >= DTSize

(***************************************************************************)
(* The heuristic of the gate.                                              *)
(***************************************************************************)
GateDone == last.op = "CanUseDirectIO"

\* the pixel strides a line holds
StridesInLine == band.nLineSize \div band.nPixelOffset

C28_WitnessBetween ==
    /\ GateDone /\ ds.oneBigRead = "unset" /\ band.nPixelOffset > 0
    /\ last.alg = "GRIORA_NearestNeighbour"
    /\ StridesInLine = HeuristicWidth - 1 /\ last.xn = 1 /\ LinesLoaded = 0
    /\ band.nLineSize >= 50000
    /\ ~last.direct

\* two lines of twenty in the block cache close the gate
C28_WitnessLoaded ==
    /\ GateDone /\ ds.oneBigRead = "unset" /\ band.nPixelOffset > 0
    /\ last.alg = "GRIORA_NearestNeighbour"
    /\ band.nLineSize >= 50000 /\ last.xn = 1 /\ last.n = 20 /\ LinesLoaded = 2
    /\ ~last.direct

(***************************************************************************)
(* The scanline cache after a failed AccessLine.                           *)
(***************************************************************************)
\* the last operation is a read_block that AccessLine failed
FailedRead == Constructed /\ last.op = "IReadBlock" /\ last.err = "CE_Failure"

\* the last operation is a read_block served from the line buffer, after a
\* read_block that failed, on a read-only dataset without ENVI metadata
CacheHitAfterFailure ==
    /\ Constructed /\ Disjoint /\ IsReadOnly(band, ds) /\ ~ds.ENVI
    /\ last.op = "IReadBlock" /\ last.err = "CE_None"
    /\ last.seeks = 0 /\ last.reads = 0
    /\ prev.op = "IReadBlock" /\ prev.err = "CE_Failure"

\* C29: if AccessLine(y) returns Failure (seek failure or short read on a
\* read-only band), loaded_line and the contents of the line buffer are the
\* same as before the call, so a following read_block of the previously
\* loaded line still returns that line's data.
C29_FailedAccessKeepsCache ==
    /\ FailedRead => last.kept
    /\ CacheHitAfterFailure => last.out = FileRow(file, last.y)

\* the same for the failures of the seek
SeekFailureKeepsCache ==
    (FailedRead /\ last.reads = 0) => last.kept

\* a failed AccessLine never changes loaded_line
FailedAccessKeepsLoadedLine ==
    [][(Constructed /\ last'.op = "IReadBlock" /\ last'.err = "CE_Failure")
           => nLoadedScanline' = nLoadedScanline]_vars

\* a short read that failed has left bytes of its line in the line buffer
ShortReadOverwrites ==
    FailedRead /\ last.reads = 1 /\ ~last.kept

\* the last operation is a request on the direct path of a band that
\* constructed
DirectDone == Constructed /\ last.op = "IRasterIO" /\ last.direct

\* C30: for every band that constructed successfully, with pixel_stride 0
\* and 0 < pixel_stride < dt_size among them, and every request for which
\* the gate opens, the direct-I/O code divides by zero nowhere and every
\* element read from or written to the staging row buffer lies within its
\* pixel_stride * wIn bytes.
C30_DirectPathSafe == DirectDone => last.err # "Trap"

\* the same for the pixel strides that hold a whole pixel
DirectPathSafeOnWholePixels ==
    (DirectDone /\ band.nPixelOffset >= GDALGetDataTypeSizeBytes(band.eDataType))
        => last.err # "Trap"

\* the same where malloc(0) returns a null pointer and the pixel stride is 0
ZeroStrideFailsOnNullAlloc ==
    (DirectDone /\ band.nPixelOffset = 0 /\ ds.zeroAllocNull)
        => last.err = "CE_Failure"

\* a band of pixel stride 0 has a line too short for the division of the
\* heuristic to be made
ZeroStrideSkipsHeuristic ==
    (Constructed /\ band.nPixelOffset = 0) => band.nLineSize < DirectIOLineSize

\* a request on the direct path of a band of pixel stride 0 has divided by
\* zero or has read a pixel from a staging buffer of no bytes
ZeroStrideTraps ==
    DirectDone /\ band.nPixelOffset = 0 /\ last.err = "Trap"

\* a request on the direct path of a band whose pixels overlap has gone
\* past the end of the staging buffer
OverlapTraps ==
    /\ DirectDone /\ last.err = "Trap"
    /\ band.nPixelOffset > 0
    /\ band.nPixelOffset < GDALGetDataTypeSizeBytes(band.eDataType)

\* the last operation is a dataset request that took the per-band direct
\* path
DispatchDone == DatasetIODone /\ ~last.delegated

\* the wrappers created, one for each band I/O issued, and those destroyed
WrappersCreated == [i \in 1..Len(last.calls) |-> last.calls[i].arg.pProgressData]
RECURSIVE DestroyedUpTo(_)
DestroyedUpTo(i) ==
    IF i = 0 THEN <<>> ELSE DestroyedUpTo(i - 1) \o last.calls[i].destroyed
WrappersDestroyed == DestroyedUpTo(Len(last.calls))

\* C31: on the per-band direct path, the caller's progress callback and
\* progress data in the request are restored to their original values when
\* dataset I/O returns (success or failure), every scaled-progress wrapper
\* that was created is destroyed, band I/O is issued in band order, and
\* after the first band that returns an error no later band's I/O is invoked
\* and that error is returned.
C31_DispatchFrame ==
    DispatchDone =>
        /\ last.arg = last.caller
        /\ WrappersDestroyed = WrappersCreated
        /\ \A i, j \in 1..Len(last.calls) :
              i # j => WrappersCreated[i] # WrappersCreated[j]
        /\ \A i \in 1..Len(last.calls) :
              /\ last.calls[i].band = last.panBandMap[i]
              /\ last.calls[i].arg.pfnProgress = "GDALScaledProgress"
              /\ WrappersCreated[i].pfnProgress = last.caller.pfnProgress
              /\ WrappersCreated[i].pData = last.caller.pProgressData
        /\ Len(last.calls) \in 1..Len(last.panBandMap)
        /\ \A i \in 1..(Len(last.calls) - 1) : last.calls[i].err = "CE_None"
        /\ last.calls[Len(last.calls)].err = last.err
        /\ last.err = "CE_None" => Len(last.calls) = Len(last.panBandMap)

\* a request with a callback of the caller whose first band failed: the
\* second band was not called, one wrapper was created
C31_Witness ==
    /\ DispatchDone /\ last.err = "CE_Failure"
    /\ last.caller.pfnProgress = "pfnCaller"
    /\ Len(last.panBandMap) = 2 /\ Len(last.calls) = 1
    /\ Len(WrappersDestroyed) = 1

\* a request with a callback of the caller that succeeded on both bands,
\* second band first
C31_WitnessBothBands ==
    /\ DispatchDone /\ last.err = "CE_None"
    /\ last.caller.pfnProgress = "pfnCaller"
    /\ last.panBandMap = <<2, 1>> /\ Len(last.calls) = 2
    /\ Len(WrappersDestroyed) = 2

\* the line buffer and the block cache hold nothing the file does not
CoherentCaches ==
    /\ nLoadedScanline \in Lines(band) => BufferRow = FileRow(file, nLoadedScanline)
    /\ ~bDirty
    /\ blockCache = EmptyCache(band)

\* this step is a successful write of a window on the general case of the
\* direct path, from coherent caches, on a band whose pixels do not overlap
DirectGeneralWrite ==
    /\ Constructed /\ Disjoint /\ CoherentCaches
    /\ last'.rw = "W" /\ last'.err = "CE_None" /\ GeneralCase(last')

\* the request of this step
WrittenRequest ==
    Request("GF_Write",
            [x |-> last'.x, y |-> last'.y, xn |-> last'.xn, yn |-> last'.n],
            last'.pat)

\* the file the block path leaves for the request of this step: the lines
\* of the window are written by write_block when the block cache is flushed
BlockPathFile ==
    Only({ Only({ f.io.file
        : f \in {FlushCache(band, ds, g.s, g.io, g.cache, TRUE)} })
        : g \in {GDALRasterBandIRasterIO(band, ds, S, IoStart(file, ds.cap, {}),
                                         blockCache, WrittenRequest)} })

\* the pixels of the window of this step, and the end of the last of them
WrittenPixels ==
    (last'.x .. (last'.x + last'.xn - 1)) \X (last'.y .. (last'.y + last'.n - 1))
WrittenEnd ==
    CHOOSE e \in {PixelOffset(q[1], q[2]) + DTSize : q \in WrittenPixels} :
        \A q \in WrittenPixels : PixelOffset(q[1], q[2]) + DTSize <= e

\* byte k of the file after this step is the byte of a written pixel, or the
\* byte the file had there
OwnCellsOnly(k) ==
    IF \E q \in WrittenPixels : k \in PixelOffset(q[1], q[2]) ..
                                       (PixelOffset(q[1], q[2]) + DTSize - 1)
    THEN \E q \in WrittenPixels, j \in 1..DTSize :
            /\ k = PixelOffset(q[1], q[2]) + DiskIndex(j) - 1
            /\ file'[k + 1] = IoValue(last'.pat, q[1], q[2], j)
    ELSE k < Len(file) /\ file'[k + 1] = file[k + 1]

\* C32: for a full-resolution window, starting from coherent caches, a
\* successful direct-I/O write of the general case leaves the file in the
\* same state as writing the same pixels through write_block: only the
\* written pixels' own dt_size-byte cells change, every gap byte keeps its
\* value, and the file is not extended past the end of the last written
\* pixel.
C32_DirectWriteAsBlockPath ==
    [][DirectGeneralWrite =>
          /\ file' = BlockPathFile
          /\ \A k \in 0 .. (Len(file') - 1) : OwnCellsOnly(k)
          /\ Len(file') <= IF Len(file) > WrittenEnd THEN Len(file) ELSE WrittenEnd]_vars

\* the same for the bytes the file had before the write
DirectWriteAsBlockPathInFile ==
    [][DirectGeneralWrite =>
          /\ \A k \in 0 .. (Len(file) - 1) :
                OwnCellsOnly(k) /\ file'[k + 1] = BlockPathFile[k + 1]
          /\ Len(BlockPathFile) = Len(file)]_vars

\* the same for the bands without a gap between their pixels
DirectWriteAsBlockPathPacked ==
    [][(DirectGeneralWrite /\ band.nPixelOffset = DTSize) =>
          /\ file' = BlockPathFile
          /\ \A k \in 0 .. (Len(file') - 1) : OwnCellsOnly(k)]_vars

\* a direct write has put the gap after its last pixel past the end of the
\* file
GapPastEndOfFile ==
    /\ Constructed /\ Disjoint /\ last.rw = "W" /\ last.err = "CE_None"
    /\ GeneralCase(last)
    /\ Len(file) > band.nLargestOffset + DTSize

\* the last operation is a write on the direct path
DirectWriteDone ==
    Constructed /\ last.op = "IRasterIO" /\ last.rw = "W" /\ last.direct

\* the caller's buffer as it was on entry
CallerData == IoPattern(last.pat, last.x, last.y, last.xn, last.n, DTSize)

\* C33: when a direct-I/O write returns, with success or with Failure after
\* a seek failure or a short write, the caller's source buffer holds exactly
\* the values it held on entry, for both byte orders.
C33_CallerBufferKept == DirectWriteDone => last.out = CallerData

\* the same for the writes that succeed
CallerBufferKeptOnSuccess ==
    (DirectWriteDone /\ last.err = "CE_None") => last.out = CallerData

\* the same for the general case and for the bands in native order
CallerBufferKeptWithoutSwap ==
    (DirectWriteDone /\ (GeneralCase(last) \/ band.bNativeOrder))
        => last.out = CallerData

\* a contiguous write whose seek failed has left the first row of the
\* caller's buffer in disk order
FailedWriteLeavesBufferSwapped ==
    /\ DirectWriteDone /\ ContiguousCase(last) /\ last.err = "CE_Failure"
    /\ last.writes = 0
    /\ last.out # CallerData
    /\ \A k \in 1 .. (last.xn * DTSize) :
          last.out[((k - 1) \div DTSize) * DTSize + DiskIndex(((k - 1) % DTSize) + 1)]
              = CallerData[k]

====
